---- MODULE Spec2Model ----
(***************************************************************************)
(* GS1 element-string decoder (gs1-toolkit): the AI dispatch of            *)
(* identifyAI, the seven field parsers, the decode loop of parseBarcode    *)
(* and the GS1Parser.decode wrapper.                                       *)
(*                                                                         *)
(* A JavaScript string is modelled as a sequence of characters, a          *)
(* character as a one-character TLA+ string; the non-printable group       *)
(* separator U+001D is written "<GS>".  Strings are indexed from 0 in the  *)
(* source and from 1 here; slice() does the conversion.                    *)
(*                                                                         *)
(* The repository holds several revisions of some files.  The model        *)
(* follows the revision of each function that the dispatch in              *)
(* src/src/barcodeParser.ts calls: parseBarcode(barcode, fncChar, lotLen), *)
(* the one-letter element types "S", "N", "D" and the GS1Parser whose      *)
(* decode passes (normalized, this.fncChar, this.lotLen).                  *)
(*                                                                         *)
(* Input alphabet: decimal digits, letters, "(", ")", "]", "|", "-", "."   *)
(* and the group separator.  Whitespace and exponent letters inside        *)
(* numeric payloads are outside the alphabet.  A number is held as an      *)
(* exact decimal: the rounding of a double beyond 15 significant digits is *)
(* not modelled.                                                           *)
(***************************************************************************)
EXTENDS Integers, Sequences, FiniteSets, TLC

\* ------------------------------------------------------------------------
\* JavaScript string and number primitives
\* ------------------------------------------------------------------------

GROUP_SEPARATOR == "<GS>"

Digits == {"0", "1", "2", "3", "4", "5", "6", "7", "8", "9"}

DigitValue(c) ==
  CASE c = "0" -> 0 [] c = "1" -> 1 [] c = "2" -> 2 [] c = "3" -> 3
    [] c = "4" -> 4 [] c = "5" -> 5 [] c = "6" -> 6 [] c = "7" -> 7
    [] c = "8" -> 8 [] c = "9" -> 9

Min(a, b) == IF a < b THEN a ELSE b

Max(a, b) == IF a > b THEN a ELSE b

\* String.prototype.slice: a negative index counts from the end, every
\* index is clamped to [0, length], an empty range gives "".
RelIndex(len, i) == IF i < 0 THEN Max(len + i, 0) ELSE Min(i, len)

slice(s, start, end) ==
  LET from == RelIndex(Len(s), start)
      to   == RelIndex(Len(s), end)
  IN  IF from >= to THEN <<>> ELSE SubSeq(s, from + 1, to)

\* String.prototype.indexOf for a one-character needle: 0-based, -1 if absent.
indexOf(s, c) ==
  IF \E i \in 1..Len(s) : s[i] = c
    THEN (CHOOSE i \in 1..Len(s) : s[i] = c /\ \A j \in 1..(i - 1) : s[j] # c) - 1
    ELSE -1

\* indexOf for a string needle.
indexOfString(s, p) ==
  LET Hit(i) == i + Len(p) <= Len(s) /\ SubSeq(s, i + 1, i + Len(p)) = p
  IN  IF \E i \in 0..Len(s) : Hit(i)
        THEN CHOOSE i \in 0..Len(s) : Hit(i) /\ \A j \in 0..(i - 1) : ~Hit(j)
        ELSE -1

\* String.prototype.replace(pattern, "") with a string pattern: the first
\* occurrence only.
replace(s, p, r) ==
  LET i == indexOfString(s, p)
  IN  IF i = -1 THEN s
      ELSE SubSeq(s, 1, i) \o r \o SubSeq(s, i + Len(p) + 1, Len(s))

\* String.prototype.replaceAll for a one-character pattern.
RECURSIVE replaceAll(_, _, _)
replaceAll(s, c, r) ==
  IF s = <<>> THEN <<>>
  ELSE (IF Head(s) = c THEN r ELSE <<Head(s)>>) \o replaceAll(Tail(s), c, r)

startsWith(s, c) == Len(s) > 0 /\ s[1] = c

\* NUMERIC_REGEX.test(s) with NUMERIC_REGEX = /^\d+$/
NUMERIC_REGEX(s) == Len(s) > 0 /\ \A i \in 1..Len(s) : s[i] \in Digits

\* number of leading decimal digits of s
RECURSIVE LeadingDigits(_)
LeadingDigits(s) ==
  IF s # <<>> /\ Head(s) \in Digits THEN 1 + LeadingDigits(Tail(s)) ELSE 0

\* the natural number written by a digit string ("" is 0)
RECURSIVE ToInt(_)
ToInt(s) ==
  IF s = <<>> THEN 0
  ELSE 10 * ToInt(SubSeq(s, 1, Len(s) - 1)) + DigitValue(s[Len(s)])

\* A JavaScript integer result: NaN or a value.
NaN == [nan |-> TRUE, val |-> 0]

Int_(v) == [nan |-> FALSE, val |-> v]

\* Number.parseInt(s, 10): optional sign, then the longest run of digits;
\* NaN when there is no digit.
parseInt(s) ==
  LET signed == s # <<>> /\ s[1] \in {"+", "-"}
      body   == IF signed THEN Tail(s) ELSE s
      n      == LeadingDigits(body)
      mag    == ToInt(SubSeq(body, 1, n))
  IN  IF n = 0 THEN NaN
      ELSE Int_(IF s[1] = "-" THEN 0 - mag ELSE mag)

\* A JavaScript number result of parseFloat: NaN, or a decimal held as the
\* digits before and after the point, without leading zeros before and without
\* trailing zeros after it, so that equal numbers are equal records (-0 is 0).
NumNaN == [type |-> "N", nan |-> TRUE, neg |-> FALSE, int |-> <<>>, frac |-> <<>>]

RECURSIVE StripLeadingZeros(_)
StripLeadingZeros(s) ==
  IF s # <<>> /\ Head(s) = "0" THEN StripLeadingZeros(Tail(s)) ELSE s

RECURSIVE StripTrailingZeros(_)
StripTrailingZeros(s) ==
  IF s # <<>> /\ s[Len(s)] = "0" THEN StripTrailingZeros(SubSeq(s, 1, Len(s) - 1)) ELSE s

Num(neg, intDigits, fracDigits) ==
  LET i == StripLeadingZeros(intDigits)
      f == StripTrailingZeros(fracDigits)
  IN  [type |-> "N", nan |-> FALSE, neg |-> neg /\ (i # <<>> \/ f # <<>>),
       int |-> i, frac |-> f]

\* Number.parseFloat(s): optional sign, digits, optional "." and digits; the
\* longest such prefix with at least one digit, NaN when there is none.
parseFloat(s) ==
  LET signed == s # <<>> /\ s[1] \in {"+", "-"}
      body   == IF signed THEN Tail(s) ELSE s
      n1     == LeadingDigits(body)
      rest   == SubSeq(body, n1 + 1, Len(body))
      dot    == rest # <<>> /\ rest[1] = "."
      n2     == IF dot THEN LeadingDigits(Tail(rest)) ELSE 0
  IN  IF n1 + n2 = 0 THEN NumNaN
      ELSE Num(s[1] = "-", SubSeq(body, 1, n1), SubSeq(rest, 2, n2 + 1))

\* Date: new Date(year, month, day) and setFullYear(year, month, day) for
\* finite arguments, by the calendar overflow rules of ECMAScript MakeDay.
IsLeap(y) == (y % 4 = 0 /\ y % 100 # 0) \/ y % 400 = 0

DaysInMonth(y, m) ==
  IF m = 1 THEN (IF IsLeap(y) THEN 29 ELSE 28)
  ELSE IF m \in {3, 5, 8, 10} THEN 30 ELSE 31

RECURSIVE MakeDay(_, _, _)
MakeDay(y, m, d) ==
  IF m > 11 THEN MakeDay(y + 1, m - 12, d)
  ELSE IF m < 0 THEN MakeDay(y - 1, m + 12, d)
  ELSE IF d < 1 THEN
    (IF m = 0 THEN MakeDay(y - 1, 11, d + 31)
     ELSE MakeDay(y, m - 1, d + DaysInMonth(y, m - 1)))
  ELSE IF d > DaysInMonth(y, m) THEN MakeDay(y, m + 1, d - DaysInMonth(y, m))
  ELSE [type |-> "D", valid |-> TRUE, year |-> y, month |-> m, date |-> d]

InvalidDateValue == [type |-> "D", valid |-> FALSE, year |-> 0, month |-> 0, date |-> 0]

\* new Date(year, month, day): a year 0..99 means 1900 + year.
NewDate(year, month, day) ==
  IF year.nan \/ month.nan \/ day.nan THEN InvalidDateValue
  ELSE MakeDay(IF year.val >= 0 /\ year.val <= 99 THEN 1900 + year.val ELSE year.val,
               month.val, day.val)

\* Date.prototype.setFullYear(year, month, day) on a valid date.
setFullYear(year, month, day) ==
  IF year.nan \/ month.nan \/ day.nan THEN InvalidDateValue
  ELSE MakeDay(year.val, month.val, day.val)

StringValue(s) == [type |-> "S", str |-> s]

\* ------------------------------------------------------------------------
\* Errors and elements (utils)
\* ------------------------------------------------------------------------

\* throw new BarcodeError(BarcodeErrorCodes.<num>, code, des); the message
\* text des is not modelled.
BarcodeError(num, code) ==
  [name |-> "BarcodeError", num |-> num, code |-> code, prev |-> <<>>, current |-> <<>>]

\* throw new InvalidAiError(prev, current)
InvalidAiError(prev, current) ==
  [name |-> "InvalidAiError", num |-> "", code |-> "", prev |-> prev, current |-> current]

\* throw new InternalError(code, ex)
InternalError(code) ==
  [name |-> "InternalError", num |-> "", code |-> code, prev |-> <<>>, current |-> <<>>]

\* The outcome of a parser: a ParseResult, or a thrown error.
Return(element, codestring) ==
  [ok |-> TRUE, element |-> element, codestring |-> codestring]

Throw(error) == [ok |-> FALSE, error |-> error]

\* new ParsedElementClass(ai, title, type): data starts as "", 0 or a date.
ParsedElementClass(ai, title, elementType) ==
  [ai |-> ai, dataTitle |-> title, unit |-> <<>>, dataString |-> <<>>,
   data |-> CASE elementType = "S" -> StringValue(<<>>)
              [] elementType = "N" -> Num(FALSE, <<>>, <<>>)
              [] elementType = "D" -> InvalidDateValue
              [] OTHER -> StringValue(<<>>)]

RECURSIVE cleanCodestring(_, _)
\* cleanCodestring removing one leading terminator only
cleanCodestringOnce(stringToClean, fncChar) ==
  IF slice(stringToClean, 0, 1) = <<fncChar>>
    THEN slice(stringToClean, 1, Len(stringToClean))
    ELSE stringToClean

cleanCodestring(stringToClean, fncChar) ==
  IF slice(stringToClean, 0, 1) = <<fncChar>>
    THEN cleanCodestring(slice(stringToClean, 1, Len(stringToClean)), fncChar)
    ELSE stringToClean

\* checkValidDate without the exemption of day 00
checkValidDateNoDayZero(year, month, day) ==
  IF ~month.nan /\ (month.val < 0 \/ month.val > 11) THEN FALSE
  ELSE
    LET m    == IF ~day.nan /\ day.val = 0 /\ ~month.nan THEN Int_(month.val + 1) ELSE month
        date == NewDate(year, m, day)
    IN  /\ date.valid
        /\ date.year = year.val
        /\ date.month = month.val
        /\ date.date = day.val

checkValidDate(year, month, day) ==
  IF ~month.nan /\ (month.val < 0 \/ month.val > 11) THEN FALSE
  ELSE
    LET m    == IF ~day.nan /\ day.val = 0 /\ ~month.nan THEN Int_(month.val + 1) ELSE month
        date == NewDate(year, m, day)
    IN  /\ date.valid
        /\ date.year = year.val
        /\ date.month = month.val
        /\ (date.date = day.val \/ day.val = 0)

\* ------------------------------------------------------------------------
\* Field parsers (parsers)
\* ------------------------------------------------------------------------

parseFloatingPoint(stringToParse, numberOfFractionals) ==
  LET len       == Len(stringToParse)
      \* with a NaN offset slice(0, NaN) is "" and slice(NaN) is the string
      head      == IF numberOfFractionals.nan THEN <<>>
                   ELSE slice(stringToParse, 0, len - numberOfFractionals.val)
      tail      == IF numberOfFractionals.nan THEN stringToParse
                   ELSE slice(stringToParse, len - numberOfFractionals.val, len)
      auxString == head \o <<".">> \o tail
  IN  parseFloat(auxString)

\* parseDate with the century boundary one year early
parseDateCenturyAt49(ai, title, codestring) ==
  LET elementToReturn == ParsedElementClass(ai, title, "D")
      offSet          == Len(ai)
      dateYYMMDD      == slice(codestring, offSet, offSet + 6)
      yy              == parseInt(slice(dateYYMMDD, 0, 2))
      mm              == parseInt(slice(dateYYMMDD, 2, 4))
      monthAsNumber   == IF mm.nan THEN NaN ELSE Int_(mm.val - 1)
      dayAsNumber     == parseInt(slice(dateYYMMDD, 4, 6))
      yearAsNumber    == IF yy.nan THEN NaN
                         ELSE IF yy.val > 49 THEN Int_(yy.val + 1900)
                         ELSE Int_(yy.val + 2000)
      monthToSet      == IF ~dayAsNumber.nan /\ dayAsNumber.val = 0 THEN Int_(monthAsNumber.val + 1)
                         ELSE monthAsNumber
  IN  IF ~checkValidDate(yearAsNumber, monthAsNumber, dayAsNumber)
        THEN Throw(BarcodeError("InvalidDate", "36"))
        ELSE Return([elementToReturn EXCEPT
                       !.data = setFullYear(yearAsNumber, monthToSet, dayAsNumber),
                       !.dataString = dateYYMMDD],
                    slice(codestring, offSet + 6, Len(codestring)))

\* parseDate without the step to the next month for day 00
parseDateKeepsMonth(ai, title, codestring) ==
  LET elementToReturn == ParsedElementClass(ai, title, "D")
      offSet          == Len(ai)
      dateYYMMDD      == slice(codestring, offSet, offSet + 6)
      yy              == parseInt(slice(dateYYMMDD, 0, 2))
      mm              == parseInt(slice(dateYYMMDD, 2, 4))
      monthAsNumber   == IF mm.nan THEN NaN ELSE Int_(mm.val - 1)
      dayAsNumber     == parseInt(slice(dateYYMMDD, 4, 6))
      yearAsNumber    == IF yy.nan THEN NaN
                         ELSE IF yy.val > 50 THEN Int_(yy.val + 1900)
                         ELSE Int_(yy.val + 2000)
      monthToSet      == monthAsNumber
  IN  IF ~checkValidDate(yearAsNumber, monthAsNumber, dayAsNumber)
        THEN Throw(BarcodeError("InvalidDate", "36"))
        ELSE Return([elementToReturn EXCEPT
                       !.data = setFullYear(yearAsNumber, monthToSet, dayAsNumber),
                       !.dataString = dateYYMMDD],
                    slice(codestring, offSet + 6, Len(codestring)))

parseDate(ai, title, codestring) ==
  LET elementToReturn == ParsedElementClass(ai, title, "D")
      offSet          == Len(ai)
      dateYYMMDD      == slice(codestring, offSet, offSet + 6)
      yy              == parseInt(slice(dateYYMMDD, 0, 2))
      mm              == parseInt(slice(dateYYMMDD, 2, 4))
      monthAsNumber   == IF mm.nan THEN NaN ELSE Int_(mm.val - 1)
      dayAsNumber     == parseInt(slice(dateYYMMDD, 4, 6))
      yearAsNumber    == IF yy.nan THEN NaN
                         ELSE IF yy.val > 50 THEN Int_(yy.val + 1900)
                         ELSE Int_(yy.val + 2000)
      monthToSet      == IF ~dayAsNumber.nan /\ dayAsNumber.val = 0 THEN Int_(monthAsNumber.val + 1)
                         ELSE monthAsNumber
  IN  IF ~checkValidDate(yearAsNumber, monthAsNumber, dayAsNumber)
        THEN Throw(BarcodeError("InvalidDate", "36"))
        ELSE Return([elementToReturn EXCEPT
                       !.data = setFullYear(yearAsNumber, monthToSet, dayAsNumber),
                       !.dataString = dateYYMMDD],
                    slice(codestring, offSet + 6, Len(codestring)))

\* parseFixedLength without the test of the numeric flag
parseFixedLengthAnyCharacter(ai, title, length, codestring, numeric) ==
  LET elementToReturn == ParsedElementClass(ai, title, "S")
      offSet          == Len(ai)
      data            == slice(codestring, offSet, length + offSet)
  IN  IF Len(data) < length
        THEN Throw(BarcodeError("FixedLengthDataTooShort", "37"))
      ELSE Return([elementToReturn EXCEPT !.data = StringValue(data), !.dataString = data],
                  slice(codestring, length + offSet, Len(codestring)))

parseFixedLength(ai, title, length, codestring, numeric) ==
  LET elementToReturn == ParsedElementClass(ai, title, "S")
      offSet          == Len(ai)
      data            == slice(codestring, offSet, length + offSet)
  IN  IF Len(data) < length
        THEN Throw(BarcodeError("FixedLengthDataTooShort", "37"))
      ELSE IF numeric /\ ~NUMERIC_REGEX(data)
        THEN Throw(BarcodeError("NumericDataExpected", "39"))
      ELSE Return([elementToReturn EXCEPT !.data = StringValue(data), !.dataString = data],
                  slice(codestring, length + offSet, Len(codestring)))

\* parseVariableLength returning the empty remainder for a capped field as well
parseVariableLengthDropsRest(ai, title, codestring, fncChar, maxLength, numeric) ==
  LET elementToReturn == ParsedElementClass(ai, title, "S")
      offSet          == Len(ai)
      posOfFNC        == indexOf(codestring, fncChar)
      capped          == maxLength # <<>> /\ maxLength[1] # 0 /\ maxLength[1] > 0
      data            == IF posOfFNC = -1
                           THEN (IF capped THEN slice(codestring, offSet, maxLength[1] + offSet)
                                 ELSE slice(codestring, offSet, Len(codestring)))
                           ELSE slice(codestring, offSet, posOfFNC)
      codestringToReturn ==
                         IF posOfFNC = -1
                           THEN <<>>
                           ELSE slice(codestring, posOfFNC + 1, Len(codestring))
  IN  IF data = <<>>
        THEN Throw(BarcodeError("EmptyVariableLengthData", "38"))
      ELSE IF numeric /\ ~NUMERIC_REGEX(data)
        THEN Throw(BarcodeError("NumericDataExpected", "39"))
      ELSE Return([elementToReturn EXCEPT !.data = StringValue(data), !.dataString = data],
                  codestringToReturn)

\* maxLength is <<>> when the argument is omitted or undefined, <<n>> otherwise.
parseVariableLength(ai, title, codestring, fncChar, maxLength, numeric) ==
  LET elementToReturn == ParsedElementClass(ai, title, "S")
      offSet          == Len(ai)
      posOfFNC        == indexOf(codestring, fncChar)
      capped          == maxLength # <<>> /\ maxLength[1] # 0 /\ maxLength[1] > 0
      data            == IF posOfFNC = -1
                           THEN (IF capped THEN slice(codestring, offSet, maxLength[1] + offSet)
                                 ELSE slice(codestring, offSet, Len(codestring)))
                           ELSE slice(codestring, offSet, posOfFNC)
      codestringToReturn ==
                         IF posOfFNC = -1
                           THEN (IF capped THEN replace(codestring, ai \o data, <<>>) ELSE <<>>)
                           ELSE slice(codestring, posOfFNC + 1, Len(codestring))
  IN  IF data = <<>>
        THEN Throw(BarcodeError("EmptyVariableLengthData", "38"))
      ELSE IF numeric /\ ~NUMERIC_REGEX(data)
        THEN Throw(BarcodeError("NumericDataExpected", "39"))
      ELSE Return([elementToReturn EXCEPT !.data = StringValue(data), !.dataString = data],
                  codestringToReturn)

\* parseVariableLengthMeasure with the unterminated field returning its input
\* as the remainder instead of the empty string
parseVariableLengthMeasureKeepsInput(ai_stem, fourthNumber, title, unit, codestring, fncChar) ==
  LET elementToReturn  == ParsedElementClass(ai_stem \o fourthNumber, title, "N")
      offSet           == Len(ai_stem) + 1
      posOfFNC         == indexOf(codestring, fncChar)
      numberOfDecimals == parseInt(fourthNumber)
      numberPart       == IF posOfFNC = -1 THEN slice(codestring, offSet, Len(codestring))
                          ELSE slice(codestring, offSet, posOfFNC)
      codestringToReturn == IF posOfFNC = -1 THEN codestring
                            ELSE slice(codestring, posOfFNC + 1, Len(codestring))
  IN  Return([elementToReturn EXCEPT
                !.data = parseFloatingPoint(numberPart, numberOfDecimals),
                !.dataString = numberPart,
                !.unit = unit],
             codestringToReturn)

parseVariableLengthMeasure(ai_stem, fourthNumber, title, unit, codestring, fncChar) ==
  LET elementToReturn  == ParsedElementClass(ai_stem \o fourthNumber, title, "N")
      offSet           == Len(ai_stem) + 1
      posOfFNC         == indexOf(codestring, fncChar)
      numberOfDecimals == parseInt(fourthNumber)
      numberPart       == IF posOfFNC = -1 THEN slice(codestring, offSet, Len(codestring))
                          ELSE slice(codestring, offSet, posOfFNC)
      codestringToReturn == IF posOfFNC = -1 THEN <<>>
                            ELSE slice(codestring, posOfFNC + 1, Len(codestring))
  IN  Return([elementToReturn EXCEPT
                !.data = parseFloatingPoint(numberPart, numberOfDecimals),
                !.dataString = numberPart,
                !.unit = unit],
             codestringToReturn)

parseFixedLengthMeasure(ai_stem, fourthNumber, title, unit, codestring) ==
  LET elementToReturn  == ParsedElementClass(ai_stem \o fourthNumber, title, "N")
      offSet           == Len(ai_stem) + 1
      numberOfDecimals == parseInt(fourthNumber)
      numberPart       == slice(codestring, offSet, offSet + 6)
  IN  IF ~NUMERIC_REGEX(fourthNumber)
        THEN Throw(InvalidAiError(ai_stem, fourthNumber))
      ELSE IF ~NUMERIC_REGEX(numberPart)
        THEN Throw(BarcodeError("NumericDataExpected", "39"))
      ELSE Return([elementToReturn EXCEPT
                     !.data = parseFloatingPoint(numberPart, numberOfDecimals),
                     !.dataString = numberPart,
                     !.unit = unit],
                  slice(codestring, offSet + 6, Len(codestring)))

parseVariableLengthWithISONumbers(ai_stem, fourthNumber, title, codestring, fncChar) ==
  LET elementToReturn  == ParsedElementClass(ai_stem \o fourthNumber, title, "N")
      offSet           == Len(ai_stem) + 1
      posOfFNC         == indexOf(codestring, fncChar)
      numberOfDecimals == parseInt(fourthNumber)
      isoPlusNumbers   == IF posOfFNC = -1 THEN slice(codestring, offSet, Len(codestring))
                          ELSE slice(codestring, offSet, posOfFNC)
      codestringToReturn == IF posOfFNC = -1 THEN <<>>
                            ELSE slice(codestring, posOfFNC + 1, Len(codestring))
      numberPart       == slice(isoPlusNumbers, 3, Len(isoPlusNumbers))
  IN  Return([elementToReturn EXCEPT
                !.data = parseFloatingPoint(numberPart, numberOfDecimals),
                !.dataString = numberPart,
                !.unit = slice(isoPlusNumbers, 0, 3)],
             codestringToReturn)

parseVariableLengthWithISOChars(ai_stem, title, codestring, fncChar) ==
  LET elementToReturn  == ParsedElementClass(ai_stem, title, "S")
      offSet           == Len(ai_stem)
      posOfFNC         == indexOf(codestring, fncChar)
      isoPlusNumbers   == IF posOfFNC = -1 THEN slice(codestring, offSet, Len(codestring))
                          ELSE slice(codestring, offSet, posOfFNC)
      codestringToReturn == IF posOfFNC = -1 THEN <<>>
                            ELSE slice(codestring, posOfFNC + 1, Len(codestring))
  IN  Return([elementToReturn EXCEPT
                !.data = StringValue(slice(isoPlusNumbers, 3, Len(isoPlusNumbers))),
                !.unit = slice(isoPlusNumbers, 0, 3),
                !.dataString = isoPlusNumbers],
             codestringToReturn)

\* ------------------------------------------------------------------------
\* AI dispatch (identifyAI)
\* ------------------------------------------------------------------------

\* return parseX(..., codestring, fncChar) in a case of the switch: the parser
\* named and the arguments the case fixes.
Selected(parserName, args) == [ok |-> TRUE, parser |-> parserName, args |-> args]

\* the call of the selected parser on codestring
invoke(selected, codestring, fncChar) ==
  LET a == selected.args
  IN  CASE selected.parser = "parseDate" ->
             parseDate(a.ai, a.title, codestring)
        [] selected.parser = "parseFixedLength" ->
             parseFixedLength(a.ai, a.title, a.length, codestring, a.numeric)
        [] selected.parser = "parseVariableLength" ->
             parseVariableLength(a.ai, a.title, codestring, fncChar, a.maxLength, a.numeric)
        [] selected.parser = "parseVariableLengthMeasure" ->
             parseVariableLengthMeasure(a.ai_stem, a.fourthNumber, a.title, a.unit, codestring, fncChar)
        [] selected.parser = "parseFixedLengthMeasure" ->
             parseFixedLengthMeasure(a.ai_stem, a.fourthNumber, a.title, a.unit, codestring)
        [] selected.parser = "parseVariableLengthWithISONumbers" ->
             parseVariableLengthWithISONumbers(a.ai_stem, a.fourthNumber, a.title, codestring, fncChar)
        [] selected.parser = "parseVariableLengthWithISOChars" ->
             parseVariableLengthWithISOChars(a.ai_stem, a.title, codestring, fncChar)

\* case "0" of the switch on firstNumber
identifyAI_0(codestring, lotLen) ==
  LET secondNumber == slice(codestring, 1, 2)
      thirdNumber  == slice(codestring, 2, 3)
      fourthNumber == slice(codestring, 3, 4)
  IN
      CASE secondNumber = <<"0">> -> Selected("parseFixedLength", [ai |-> <<"0", "0">>, title |-> <<"SSCC">>, length |-> 18, numeric |-> TRUE])
        [] secondNumber = <<"1">> -> Selected("parseFixedLength", [ai |-> <<"0", "1">>, title |-> <<"GTIN">>, length |-> 14, numeric |-> TRUE])
        [] secondNumber = <<"2">> -> Selected("parseFixedLength", [ai |-> <<"0", "2">>, title |-> <<"CONTENT">>, length |-> 14, numeric |-> FALSE])
        [] secondNumber = <<"3">> -> Selected("parseFixedLength", [ai |-> <<"0", "3">>, title |-> <<"MTO GTIN">>, length |-> 14, numeric |-> FALSE])
        [] OTHER -> Throw(InvalidAiError(<<"0">>, secondNumber))

\* case "1" of the switch with a branch for the undefined AI 14
identifyAI_1_with14(codestring, lotLen) ==
  LET secondNumber == slice(codestring, 1, 2)
      thirdNumber  == slice(codestring, 2, 3)
      fourthNumber == slice(codestring, 3, 4)
  IN
      CASE secondNumber = <<"0">> -> Selected("parseVariableLength", [ai |-> <<"1", "0">>, title |-> <<"BATCH/LOT">>, maxLength |-> (IF lotLen = <<>> THEN <<20>> ELSE lotLen), numeric |-> FALSE])
        [] secondNumber = <<"1">> -> Selected("parseDate", [ai |-> <<"1", "1">>, title |-> <<"PROD DATE">>])
        [] secondNumber = <<"2">> -> Selected("parseDate", [ai |-> <<"1", "2">>, title |-> <<"DUE DATE">>])
        [] secondNumber = <<"3">> -> Selected("parseDate", [ai |-> <<"1", "3">>, title |-> <<"PACK DATE">>])
        [] secondNumber = <<"4">> -> Selected("parseDate", [ai |-> <<"1", "4">>, title |-> <<"DATE">>])
        [] secondNumber = <<"5">> -> Selected("parseDate", [ai |-> <<"1", "5">>, title |-> <<"BEST BEFORE or BEST BY">>])
        [] secondNumber = <<"6">> -> Selected("parseDate", [ai |-> <<"1", "6">>, title |-> <<"SELL BY">>])
        [] secondNumber = <<"7">> -> Selected("parseDate", [ai |-> <<"1", "7">>, title |-> <<"USE BY OR EXPIRY">>])
        [] OTHER -> Throw(InvalidAiError(<<"1">>, secondNumber))

\* case "1" of the switch on firstNumber
identifyAI_1(codestring, lotLen) ==
  LET secondNumber == slice(codestring, 1, 2)
      thirdNumber  == slice(codestring, 2, 3)
      fourthNumber == slice(codestring, 3, 4)
  IN
      CASE secondNumber = <<"0">> -> Selected("parseVariableLength", [ai |-> <<"1", "0">>, title |-> <<"BATCH/LOT">>, maxLength |-> (IF lotLen = <<>> THEN <<20>> ELSE lotLen), numeric |-> FALSE])
        [] secondNumber = <<"1">> -> Selected("parseDate", [ai |-> <<"1", "1">>, title |-> <<"PROD DATE">>])
        [] secondNumber = <<"2">> -> Selected("parseDate", [ai |-> <<"1", "2">>, title |-> <<"DUE DATE">>])
        [] secondNumber = <<"3">> -> Selected("parseDate", [ai |-> <<"1", "3">>, title |-> <<"PACK DATE">>])
        [] secondNumber = <<"5">> -> Selected("parseDate", [ai |-> <<"1", "5">>, title |-> <<"BEST BEFORE or BEST BY">>])
        [] secondNumber = <<"6">> -> Selected("parseDate", [ai |-> <<"1", "6">>, title |-> <<"SELL BY">>])
        [] secondNumber = <<"7">> -> Selected("parseDate", [ai |-> <<"1", "7">>, title |-> <<"USE BY OR EXPIRY">>])
        [] OTHER -> Throw(InvalidAiError(<<"1">>, secondNumber))

\* case "2" of the switch on firstNumber
identifyAI_2(codestring, lotLen) ==
  LET secondNumber == slice(codestring, 1, 2)
      thirdNumber  == slice(codestring, 2, 3)
      fourthNumber == slice(codestring, 3, 4)
  IN
      CASE secondNumber = <<"0">> -> Selected("parseFixedLength", [ai |-> <<"2", "0">>, title |-> <<"VARIANT">>, length |-> 2, numeric |-> FALSE])
        [] secondNumber = <<"1">> -> Selected("parseVariableLength", [ai |-> <<"2", "1">>, title |-> <<"SERIAL">>, maxLength |-> (IF lotLen = <<>> THEN <<20>> ELSE lotLen), numeric |-> FALSE])
        [] secondNumber = <<"2">> -> Selected("parseVariableLength", [ai |-> <<"2", "2">>, title |-> <<"CPV">>, maxLength |-> <<20>>, numeric |-> FALSE])
        [] secondNumber = <<"3">> ->
           (CASE thirdNumber = <<"5">> -> Selected("parseVariableLength", [ai |-> <<"2", "3", "5">>, title |-> <<"TPX">>, maxLength |-> <<28>>, numeric |-> FALSE])
              [] OTHER -> Throw(InvalidAiError(<<"2", "3">>, thirdNumber)))
        [] secondNumber = <<"4">> ->
           (CASE thirdNumber = <<"0">> -> Selected("parseVariableLength", [ai |-> <<"2", "4", "0">>, title |-> <<"ADDITIONAL ID">>, maxLength |-> <<30>>, numeric |-> FALSE])
              [] thirdNumber = <<"1">> -> Selected("parseVariableLength", [ai |-> <<"2", "4", "1">>, title |-> <<"CUST. PART NO.">>, maxLength |-> <<30>>, numeric |-> FALSE])
              [] thirdNumber = <<"2">> -> Selected("parseVariableLength", [ai |-> <<"2", "4", "2">>, title |-> <<"MTO VARIANT">>, maxLength |-> <<6>>, numeric |-> FALSE])
              [] thirdNumber = <<"3">> -> Selected("parseVariableLength", [ai |-> <<"2", "4", "3">>, title |-> <<"PCN">>, maxLength |-> <<20>>, numeric |-> FALSE])
              [] OTHER -> Throw(InvalidAiError(<<"2", "4">>, thirdNumber)))
        [] secondNumber = <<"5">> ->
           (CASE thirdNumber = <<"0">> -> Selected("parseVariableLength", [ai |-> <<"2", "5", "0">>, title |-> <<"SECONDARY SERIAL">>, maxLength |-> <<30>>, numeric |-> FALSE])
              [] thirdNumber = <<"1">> -> Selected("parseVariableLength", [ai |-> <<"2", "5", "1">>, title |-> <<"REF. TO SOURCE">>, maxLength |-> <<30>>, numeric |-> FALSE])
              [] thirdNumber = <<"3">> -> Selected("parseVariableLength", [ai |-> <<"2", "5", "3">>, title |-> <<"GDTI">>, maxLength |-> <<42>>, numeric |-> FALSE])
              [] thirdNumber = <<"4">> -> Selected("parseVariableLength", [ai |-> <<"2", "5", "4">>, title |-> <<"GLN EXTENSION COMPONENT">>, maxLength |-> <<20>>, numeric |-> FALSE])
              [] thirdNumber = <<"5">> -> Selected("parseVariableLength", [ai |-> <<"2", "5", "5">>, title |-> <<"GCN">>, maxLength |-> <<37>>, numeric |-> FALSE])
              [] OTHER -> Throw(InvalidAiError(<<"2", "5">>, thirdNumber)))
        [] OTHER -> Throw(InvalidAiError(<<"2">>, secondNumber))

\* case "3" of the switch on firstNumber
identifyAI_3(codestring, lotLen) ==
  LET secondNumber == slice(codestring, 1, 2)
      thirdNumber  == slice(codestring, 2, 3)
      fourthNumber == slice(codestring, 3, 4)
  IN
      CASE secondNumber = <<"0">> -> Selected("parseVariableLength", [ai |-> <<"3", "0">>, title |-> <<"VAR. COUNT">>, maxLength |-> <<8>>, numeric |-> FALSE])
        [] secondNumber = <<"1">> ->
           (CASE thirdNumber = <<"0">> -> Selected("parseFixedLengthMeasure", [ai_stem |-> <<"3", "1", "0">>, fourthNumber |-> fourthNumber, title |-> <<"NET WEIGHT (kg)">>, unit |-> <<"K", "G", "M">>])
              [] thirdNumber = <<"1">> -> Selected("parseFixedLengthMeasure", [ai_stem |-> <<"3", "1", "1">>, fourthNumber |-> fourthNumber, title |-> <<"LENGTH (m)">>, unit |-> <<"M", "T", "R">>])
              [] thirdNumber = <<"2">> -> Selected("parseFixedLengthMeasure", [ai_stem |-> <<"3", "1", "2">>, fourthNumber |-> fourthNumber, title |-> <<"WIDTH (m)">>, unit |-> <<"M", "T", "R">>])
              [] thirdNumber = <<"3">> -> Selected("parseFixedLengthMeasure", [ai_stem |-> <<"3", "1", "3">>, fourthNumber |-> fourthNumber, title |-> <<"HEIGHT (m)">>, unit |-> <<"M", "T", "R">>])
              [] thirdNumber = <<"4">> -> Selected("parseFixedLengthMeasure", [ai_stem |-> <<"3", "1", "4">>, fourthNumber |-> fourthNumber, title |-> <<"AREA (m2)">>, unit |-> <<"M", "T", "K">>])
              [] thirdNumber = <<"5">> -> Selected("parseFixedLengthMeasure", [ai_stem |-> <<"3", "1", "5">>, fourthNumber |-> fourthNumber, title |-> <<"NET VOLUME (l)">>, unit |-> <<"L", "T", "R">>])
              [] thirdNumber = <<"6">> -> Selected("parseFixedLengthMeasure", [ai_stem |-> <<"3", "1", "6">>, fourthNumber |-> fourthNumber, title |-> <<"NET VOLUME (m3)">>, unit |-> <<"M", "T", "Q">>])
              [] OTHER -> Throw(InvalidAiError(<<"3", "1">>, thirdNumber)))
        [] secondNumber = <<"2">> ->
           (CASE thirdNumber = <<"0">> -> Selected("parseFixedLengthMeasure", [ai_stem |-> <<"3", "2", "0">>, fourthNumber |-> fourthNumber, title |-> <<"NET WEIGHT (lb)">>, unit |-> <<"L", "B", "R">>])
              [] thirdNumber = <<"1">> -> Selected("parseFixedLengthMeasure", [ai_stem |-> <<"3", "2", "1">>, fourthNumber |-> fourthNumber, title |-> <<"LENGTH (i)">>, unit |-> <<"I", "N", "H">>])
              [] thirdNumber = <<"2">> -> Selected("parseFixedLengthMeasure", [ai_stem |-> <<"3", "2", "2">>, fourthNumber |-> fourthNumber, title |-> <<"LENGTH (f)">>, unit |-> <<"F", "O", "T">>])
              [] thirdNumber = <<"3">> -> Selected("parseFixedLengthMeasure", [ai_stem |-> <<"3", "2", "3">>, fourthNumber |-> fourthNumber, title |-> <<"LENGTH (y)">>, unit |-> <<"Y", "R", "D">>])
              [] thirdNumber = <<"4">> -> Selected("parseFixedLengthMeasure", [ai_stem |-> <<"3", "2", "4">>, fourthNumber |-> fourthNumber, title |-> <<"WIDTH (i)">>, unit |-> <<"I", "N", "H">>])
              [] thirdNumber = <<"5">> -> Selected("parseFixedLengthMeasure", [ai_stem |-> <<"3", "2", "5">>, fourthNumber |-> fourthNumber, title |-> <<"WIDTH (f)">>, unit |-> <<"F", "O", "T">>])
              [] thirdNumber = <<"6">> -> Selected("parseFixedLengthMeasure", [ai_stem |-> <<"3", "2", "6">>, fourthNumber |-> fourthNumber, title |-> <<"WIDTH (y)">>, unit |-> <<"Y", "R", "D">>])
              [] thirdNumber = <<"7">> -> Selected("parseFixedLengthMeasure", [ai_stem |-> <<"3", "2", "7">>, fourthNumber |-> fourthNumber, title |-> <<"HEIGHT (i)">>, unit |-> <<"I", "N", "H">>])
              [] thirdNumber = <<"8">> -> Selected("parseFixedLengthMeasure", [ai_stem |-> <<"3", "2", "8">>, fourthNumber |-> fourthNumber, title |-> <<"HEIGHT (f)">>, unit |-> <<"F", "O", "T">>])
              [] thirdNumber = <<"9">> -> Selected("parseFixedLengthMeasure", [ai_stem |-> <<"3", "2", "9">>, fourthNumber |-> fourthNumber, title |-> <<"HEIGHT (y)">>, unit |-> <<"Y", "R", "D">>])
              [] OTHER -> Throw(InvalidAiError(<<"3", "2">>, thirdNumber)))
        [] secondNumber = <<"3">> ->
           (CASE thirdNumber = <<"0">> -> Selected("parseFixedLengthMeasure", [ai_stem |-> <<"3", "3", "0">>, fourthNumber |-> fourthNumber, title |-> <<"GROSS WEIGHT (kg)">>, unit |-> <<"K", "G", "M">>])
              [] thirdNumber = <<"1">> -> Selected("parseFixedLengthMeasure", [ai_stem |-> <<"3", "3", "1">>, fourthNumber |-> fourthNumber, title |-> <<"LENGTH (m), log">>, unit |-> <<"M", "T", "R">>])
              [] thirdNumber = <<"2">> -> Selected("parseFixedLengthMeasure", [ai_stem |-> <<"3", "3", "2">>, fourthNumber |-> fourthNumber, title |-> <<"WIDTH (m), log">>, unit |-> <<"M", "T", "R">>])
              [] thirdNumber = <<"3">> -> Selected("parseFixedLengthMeasure", [ai_stem |-> <<"3", "3", "3">>, fourthNumber |-> fourthNumber, title |-> <<"HEIGHT (m), log">>, unit |-> <<"M", "T", "R">>])
              [] thirdNumber = <<"4">> -> Selected("parseFixedLengthMeasure", [ai_stem |-> <<"3", "3", "4">>, fourthNumber |-> fourthNumber, title |-> <<"AREA (m2), log">>, unit |-> <<"M", "T", "K">>])
              [] thirdNumber = <<"5">> -> Selected("parseFixedLengthMeasure", [ai_stem |-> <<"3", "3", "5">>, fourthNumber |-> fourthNumber, title |-> <<"VOLUME (l), log">>, unit |-> <<"L", "T", "R">>])
              [] thirdNumber = <<"6">> -> Selected("parseFixedLengthMeasure", [ai_stem |-> <<"3", "3", "6">>, fourthNumber |-> fourthNumber, title |-> <<"VOLUME (m3), log">>, unit |-> <<"M", "T", "Q">>])
              [] thirdNumber = <<"7">> -> Selected("parseFixedLengthMeasure", [ai_stem |-> <<"3", "3", "7">>, fourthNumber |-> fourthNumber, title |-> <<"KG PER m2">>, unit |-> <<"2", "8">>])
              [] OTHER -> Throw(InvalidAiError(<<"3", "3">>, thirdNumber)))
        [] secondNumber = <<"4">> ->
           (CASE thirdNumber = <<"0">> -> Selected("parseFixedLengthMeasure", [ai_stem |-> <<"3", "4", "0">>, fourthNumber |-> fourthNumber, title |-> <<"GROSS WEIGHT (lb)">>, unit |-> <<"L", "B", "R">>])
              [] thirdNumber = <<"1">> -> Selected("parseFixedLengthMeasure", [ai_stem |-> <<"3", "4", "1">>, fourthNumber |-> fourthNumber, title |-> <<"LENGTH (i), log">>, unit |-> <<"I", "N", "H">>])
              [] thirdNumber = <<"2">> -> Selected("parseFixedLengthMeasure", [ai_stem |-> <<"3", "4", "2">>, fourthNumber |-> fourthNumber, title |-> <<"LENGTH (f), log">>, unit |-> <<"F", "O", "T">>])
              [] thirdNumber = <<"3">> -> Selected("parseFixedLengthMeasure", [ai_stem |-> <<"3", "4", "3">>, fourthNumber |-> fourthNumber, title |-> <<"LENGTH (y), log">>, unit |-> <<"Y", "R", "D">>])
              [] thirdNumber = <<"4">> -> Selected("parseFixedLengthMeasure", [ai_stem |-> <<"3", "4", "4">>, fourthNumber |-> fourthNumber, title |-> <<"WIDTH (i), log">>, unit |-> <<"I", "N", "H">>])
              [] thirdNumber = <<"5">> -> Selected("parseFixedLengthMeasure", [ai_stem |-> <<"3", "4", "5">>, fourthNumber |-> fourthNumber, title |-> <<"WIDTH (f), log">>, unit |-> <<"F", "O", "T">>])
              [] thirdNumber = <<"6">> -> Selected("parseFixedLengthMeasure", [ai_stem |-> <<"3", "4", "6">>, fourthNumber |-> fourthNumber, title |-> <<"WIDTH (y), log">>, unit |-> <<"Y", "R", "D">>])
              [] thirdNumber = <<"7">> -> Selected("parseFixedLengthMeasure", [ai_stem |-> <<"3", "4", "7">>, fourthNumber |-> fourthNumber, title |-> <<"HEIGHT (i), log">>, unit |-> <<"I", "N", "H">>])
              [] thirdNumber = <<"8">> -> Selected("parseFixedLengthMeasure", [ai_stem |-> <<"3", "4", "8">>, fourthNumber |-> fourthNumber, title |-> <<"HEIGHT (f), log">>, unit |-> <<"F", "O", "T">>])
              [] thirdNumber = <<"9">> -> Selected("parseFixedLengthMeasure", [ai_stem |-> <<"3", "4", "9">>, fourthNumber |-> fourthNumber, title |-> <<"HEIGHT (y), log">>, unit |-> <<"Y", "R", "D">>])
              [] OTHER -> Throw(InvalidAiError(<<"3", "3">>, thirdNumber)))
        [] secondNumber = <<"5">> ->
           (CASE thirdNumber = <<"0">> -> Selected("parseFixedLengthMeasure", [ai_stem |-> <<"3", "5", "0">>, fourthNumber |-> fourthNumber, title |-> <<"AREA (i2)">>, unit |-> <<"I", "N", "K">>])
              [] thirdNumber = <<"1">> -> Selected("parseFixedLengthMeasure", [ai_stem |-> <<"3", "5", "1">>, fourthNumber |-> fourthNumber, title |-> <<"AREA (f2)">>, unit |-> <<"F", "T", "K">>])
              [] thirdNumber = <<"2">> -> Selected("parseFixedLengthMeasure", [ai_stem |-> <<"3", "5", "2">>, fourthNumber |-> fourthNumber, title |-> <<"AREA (y2)">>, unit |-> <<"Y", "D", "K">>])
              [] thirdNumber = <<"3">> -> Selected("parseFixedLengthMeasure", [ai_stem |-> <<"3", "5", "3">>, fourthNumber |-> fourthNumber, title |-> <<"AREA (i2), log">>, unit |-> <<"I", "N", "K">>])
              [] thirdNumber = <<"4">> -> Selected("parseFixedLengthMeasure", [ai_stem |-> <<"3", "5", "4">>, fourthNumber |-> fourthNumber, title |-> <<"AREA (f2), log">>, unit |-> <<"F", "T", "K">>])
              [] thirdNumber = <<"5">> -> Selected("parseFixedLengthMeasure", [ai_stem |-> <<"3", "5", "5">>, fourthNumber |-> fourthNumber, title |-> <<"AREA (y2), log">>, unit |-> <<"Y", "D", "K">>])
              [] thirdNumber = <<"6">> -> Selected("parseFixedLengthMeasure", [ai_stem |-> <<"3", "5", "6">>, fourthNumber |-> fourthNumber, title |-> <<"NET WEIGHT (t)">>, unit |-> <<"A", "P", "Z">>])
              [] thirdNumber = <<"7">> -> Selected("parseFixedLengthMeasure", [ai_stem |-> <<"3", "5", "7">>, fourthNumber |-> fourthNumber, title |-> <<"NET VOLUME (oz)">>, unit |-> <<"O", "N", "Z">>])
              [] OTHER -> Throw(InvalidAiError(<<"3", "5">>, thirdNumber)))
        [] secondNumber = <<"6">> ->
           (CASE thirdNumber = <<"0">> -> Selected("parseFixedLengthMeasure", [ai_stem |-> <<"3", "6", "0">>, fourthNumber |-> fourthNumber, title |-> <<"NET VOLUME (q)">>, unit |-> <<"Q", "T">>])
              [] thirdNumber = <<"1">> -> Selected("parseFixedLengthMeasure", [ai_stem |-> <<"3", "6", "1">>, fourthNumber |-> fourthNumber, title |-> <<"NET VOLUME (g)">>, unit |-> <<"G", "L", "L">>])
              [] thirdNumber = <<"2">> -> Selected("parseFixedLengthMeasure", [ai_stem |-> <<"3", "6", "2">>, fourthNumber |-> fourthNumber, title |-> <<"VOLUME (q), log">>, unit |-> <<"Q", "T">>])
              [] thirdNumber = <<"3">> -> Selected("parseFixedLengthMeasure", [ai_stem |-> <<"3", "6", "3">>, fourthNumber |-> fourthNumber, title |-> <<"VOLUME (g), log">>, unit |-> <<"G", "L", "L">>])
              [] thirdNumber = <<"4">> -> Selected("parseFixedLengthMeasure", [ai_stem |-> <<"3", "6", "4">>, fourthNumber |-> fourthNumber, title |-> <<"VOLUME (i3)">>, unit |-> <<"I", "N", "Q">>])
              [] thirdNumber = <<"5">> -> Selected("parseFixedLengthMeasure", [ai_stem |-> <<"3", "6", "5">>, fourthNumber |-> fourthNumber, title |-> <<"VOLUME (f3)">>, unit |-> <<"F", "T", "Q">>])
              [] thirdNumber = <<"6">> -> Selected("parseFixedLengthMeasure", [ai_stem |-> <<"3", "6", "6">>, fourthNumber |-> fourthNumber, title |-> <<"VOLUME (y3)">>, unit |-> <<"Y", "D", "Q">>])
              [] thirdNumber = <<"7">> -> Selected("parseFixedLengthMeasure", [ai_stem |-> <<"3", "6", "7">>, fourthNumber |-> fourthNumber, title |-> <<"VOLUME (i3), log">>, unit |-> <<"I", "N", "Q">>])
              [] thirdNumber = <<"8">> -> Selected("parseFixedLengthMeasure", [ai_stem |-> <<"3", "6", "8">>, fourthNumber |-> fourthNumber, title |-> <<"VOLUME (f3), log">>, unit |-> <<"F", "T", "Q">>])
              [] thirdNumber = <<"9">> -> Selected("parseFixedLengthMeasure", [ai_stem |-> <<"3", "6", "9">>, fourthNumber |-> fourthNumber, title |-> <<"VOLUME (y3), log">>, unit |-> <<"Y", "D", "Q">>])
              [] OTHER -> Throw(InvalidAiError(<<"3", "6">>, thirdNumber)))
        [] secondNumber = <<"7">> -> Selected("parseVariableLength", [ai |-> <<"3", "7">>, title |-> <<"COUNT">>, maxLength |-> <<8>>, numeric |-> FALSE])
        [] secondNumber = <<"9">> ->
           (CASE thirdNumber = <<"0">> -> Selected("parseVariableLengthMeasure", [ai_stem |-> <<"3", "9", "0">>, fourthNumber |-> fourthNumber, title |-> <<"AMOUNT">>, unit |-> <<>>])
              [] thirdNumber = <<"1">> -> Selected("parseVariableLengthWithISONumbers", [ai_stem |-> <<"3", "9", "1">>, fourthNumber |-> fourthNumber, title |-> <<"AMOUNT">>])
              [] thirdNumber = <<"2">> -> Selected("parseVariableLengthMeasure", [ai_stem |-> <<"3", "9", "2">>, fourthNumber |-> fourthNumber, title |-> <<"PRICE">>, unit |-> <<>>])
              [] thirdNumber = <<"3">> -> Selected("parseVariableLengthWithISONumbers", [ai_stem |-> <<"3", "9", "3">>, fourthNumber |-> fourthNumber, title |-> <<"PRICE">>])
              [] OTHER -> Throw(InvalidAiError(<<"3", "9">>, thirdNumber)))
        [] OTHER -> Throw(InvalidAiError(<<"3">>, secondNumber))

\* case "4" of the switch on firstNumber
identifyAI_4(codestring, lotLen) ==
  LET secondNumber == slice(codestring, 1, 2)
      thirdNumber  == slice(codestring, 2, 3)
      fourthNumber == slice(codestring, 3, 4)
  IN
      CASE secondNumber = <<"0">> ->
           (CASE thirdNumber = <<"0">> -> Selected("parseVariableLength", [ai |-> <<"4", "0", "0">>, title |-> <<"ORDER NUMBER">>, maxLength |-> <<30>>, numeric |-> FALSE])
              [] thirdNumber = <<"1">> -> Selected("parseVariableLength", [ai |-> <<"4", "0", "1">>, title |-> <<"GINC">>, maxLength |-> <<>>, numeric |-> FALSE])
              [] thirdNumber = <<"2">> -> Selected("parseVariableLength", [ai |-> <<"4", "0", "2">>, title |-> <<"GSIN">>, maxLength |-> <<17>>, numeric |-> FALSE])
              [] thirdNumber = <<"3">> -> Selected("parseVariableLength", [ai |-> <<"4", "0", "3">>, title |-> <<"ROUTE">>, maxLength |-> <<30>>, numeric |-> FALSE])
              [] OTHER -> Throw(InvalidAiError(<<"4", "0">>, thirdNumber)))
        [] secondNumber = <<"1">> ->
           (CASE thirdNumber = <<"0">> -> Selected("parseFixedLength", [ai |-> <<"4", "1", "0">>, title |-> <<"SHIP TO LOC">>, length |-> 13, numeric |-> FALSE])
              [] thirdNumber = <<"1">> -> Selected("parseFixedLength", [ai |-> <<"4", "1", "1">>, title |-> <<"BILL TO">>, length |-> 13, numeric |-> FALSE])
              [] thirdNumber = <<"2">> -> Selected("parseFixedLength", [ai |-> <<"4", "1", "2">>, title |-> <<"PURCHASE FROM">>, length |-> 13, numeric |-> FALSE])
              [] thirdNumber = <<"3">> -> Selected("parseFixedLength", [ai |-> <<"4", "1", "3">>, title |-> <<"SHIP FOR LOC">>, length |-> 13, numeric |-> FALSE])
              [] thirdNumber = <<"4">> -> Selected("parseFixedLength", [ai |-> <<"4", "1", "4">>, title |-> <<"LOC NO">>, length |-> 13, numeric |-> FALSE])
              [] thirdNumber = <<"5">> -> Selected("parseFixedLength", [ai |-> <<"4", "1", "5">>, title |-> <<"PAY TO">>, length |-> 13, numeric |-> FALSE])
              [] thirdNumber = <<"6">> -> Selected("parseFixedLength", [ai |-> <<"4", "1", "6">>, title |-> <<"PROD/SERV LOC">>, length |-> 13, numeric |-> FALSE])
              [] thirdNumber = <<"7">> -> Selected("parseFixedLength", [ai |-> <<"4", "1", "7">>, title |-> <<"PARTY">>, length |-> 13, numeric |-> FALSE])
              [] OTHER -> Throw(InvalidAiError(<<"4", "1">>, thirdNumber)))
        [] secondNumber = <<"2">> ->
           (CASE thirdNumber = <<"0">> -> Selected("parseVariableLength", [ai |-> <<"4", "2", "0">>, title |-> <<"SHIP TO POST">>, maxLength |-> <<20>>, numeric |-> FALSE])
              [] thirdNumber = <<"1">> -> Selected("parseVariableLengthWithISOChars", [ai_stem |-> <<"4", "2", "1">>, title |-> <<"SHIP TO POST">>])
              [] thirdNumber = <<"2">> -> Selected("parseFixedLength", [ai |-> <<"4", "2", "2">>, title |-> <<"ORIGIN">>, length |-> 3, numeric |-> FALSE])
              [] thirdNumber = <<"3">> -> Selected("parseVariableLength", [ai |-> <<"4", "2", "3">>, title |-> <<"COUNTRY - INITIAL PROCESS.">>, maxLength |-> <<15>>, numeric |-> FALSE])
              [] thirdNumber = <<"4">> -> Selected("parseFixedLength", [ai |-> <<"4", "2", "4">>, title |-> <<"COUNTRY - PROCESS.">>, length |-> 3, numeric |-> FALSE])
              [] thirdNumber = <<"5">> -> Selected("parseFixedLength", [ai |-> <<"4", "2", "5">>, title |-> <<"COUNTRY - DISASSEMBLY">>, length |-> 3, numeric |-> FALSE])
              [] thirdNumber = <<"6">> -> Selected("parseFixedLength", [ai |-> <<"4", "2", "6">>, title |-> <<"COUNTRY - FULL PROCESS">>, length |-> 3, numeric |-> FALSE])
              [] thirdNumber = <<"7">> -> Selected("parseVariableLength", [ai |-> <<"4", "2", "7">>, title |-> <<"ORIGIN SUBDIVISION">>, maxLength |-> <<3>>, numeric |-> FALSE])
              [] OTHER -> Throw(InvalidAiError(<<"4", "2">>, thirdNumber)))
        [] OTHER -> Throw(InvalidAiError(<<"4">>, secondNumber))

\* case "7" of the switch on firstNumber
identifyAI_7(codestring, lotLen) ==
  LET secondNumber == slice(codestring, 1, 2)
      thirdNumber  == slice(codestring, 2, 3)
      fourthNumber == slice(codestring, 3, 4)
  IN
      CASE secondNumber = <<"0">> ->
           (CASE thirdNumber = <<"0">> ->
                 (CASE fourthNumber = <<"1">> -> Selected("parseVariableLength", [ai |-> <<"7", "0", "0", "1">>, title |-> <<"NSN">>, maxLength |-> <<13>>, numeric |-> FALSE])
                    [] fourthNumber = <<"2">> -> Selected("parseVariableLength", [ai |-> <<"7", "0", "0", "2">>, title |-> <<"MEAT CUT">>, maxLength |-> <<>>, numeric |-> FALSE])
                    [] fourthNumber = <<"3">> -> Selected("parseVariableLength", [ai |-> <<"7", "0", "0", "3">>, title |-> <<"EXPIRY TIME">>, maxLength |-> <<10>>, numeric |-> FALSE])
                    [] fourthNumber = <<"4">> -> Selected("parseVariableLength", [ai |-> <<"7", "0", "0", "4">>, title |-> <<"ACTIVE POTENCY">>, maxLength |-> <<6>>, numeric |-> FALSE])
                    [] OTHER -> Throw(InvalidAiError(<<"7", "0">>, thirdNumber)))
              [] thirdNumber = <<"3">> -> Selected("parseVariableLengthWithISOChars", [ai_stem |-> <<"7", "0", "3">> \o fourthNumber, title |-> <<"PROCESSOR # ">> \o fourthNumber])
              [] OTHER -> Throw(InvalidAiError(<<"7", "0">>, thirdNumber)))
        [] secondNumber = <<"1">> ->
           (CASE thirdNumber = <<"0">> -> Selected("parseVariableLength", [ai |-> <<"7", "1", "0">>, title |-> <<"NHRN PZN">>, maxLength |-> <<>>, numeric |-> FALSE])
              [] thirdNumber = <<"1">> -> Selected("parseVariableLength", [ai |-> <<"7", "1", "1">>, title |-> <<"NHRN CIP">>, maxLength |-> <<>>, numeric |-> FALSE])
              [] thirdNumber = <<"2">> -> Selected("parseVariableLength", [ai |-> <<"7", "1", "2">>, title |-> <<"NHRN CN">>, maxLength |-> <<>>, numeric |-> FALSE])
              [] thirdNumber = <<"3">> -> Selected("parseVariableLength", [ai |-> <<"7", "1", "3">>, title |-> <<"NHRN DRN">>, maxLength |-> <<>>, numeric |-> FALSE])
              [] OTHER -> Throw(InvalidAiError(<<"7", "1">>, thirdNumber)))
        [] OTHER -> Throw(InvalidAiError(<<"7">>, secondNumber))

\* case "8" of the switch on firstNumber
identifyAI_8(codestring, lotLen) ==
  LET secondNumber == slice(codestring, 1, 2)
      thirdNumber  == slice(codestring, 2, 3)
      fourthNumber == slice(codestring, 3, 4)
  IN
      CASE secondNumber = <<"0">> ->
           (CASE thirdNumber = <<"0">> ->
                 (CASE fourthNumber = <<"1">> -> Selected("parseVariableLength", [ai |-> <<"8", "0", "0", "1">>, title |-> <<"DIMENSIONS">>, maxLength |-> <<14>>, numeric |-> FALSE])
                    [] fourthNumber = <<"2">> -> Selected("parseVariableLength", [ai |-> <<"8", "0", "0", "2">>, title |-> <<"CMT No">>, maxLength |-> <<>>, numeric |-> FALSE])
                    [] fourthNumber = <<"3">> -> Selected("parseVariableLength", [ai |-> <<"8", "0", "0", "3">>, title |-> <<"GRAI">>, maxLength |-> <<>>, numeric |-> FALSE])
                    [] fourthNumber = <<"4">> -> Selected("parseVariableLength", [ai |-> <<"8", "0", "0", "4">>, title |-> <<"GIAI">>, maxLength |-> <<>>, numeric |-> FALSE])
                    [] fourthNumber = <<"5">> -> Selected("parseVariableLength", [ai |-> <<"8", "0", "0", "5">>, title |-> <<"PRICE PER UNIT">>, maxLength |-> <<6>>, numeric |-> FALSE])
                    [] fourthNumber = <<"6">> -> Selected("parseVariableLength", [ai |-> <<"8", "0", "0", "6">>, title |-> <<"GCTIN">>, maxLength |-> <<18>>, numeric |-> FALSE])
                    [] fourthNumber = <<"7">> -> Selected("parseVariableLength", [ai |-> <<"8", "0", "0", "7">>, title |-> <<"IBAN">>, maxLength |-> <<>>, numeric |-> FALSE])
                    [] fourthNumber = <<"8">> -> Selected("parseVariableLength", [ai |-> <<"8", "0", "0", "8">>, title |-> <<"PROD TIME">>, maxLength |-> <<12>>, numeric |-> FALSE])
                    [] OTHER -> Throw(InvalidAiError(<<"8", "0", "0">>, fourthNumber)))
              [] thirdNumber = <<"1">> ->
                 (CASE fourthNumber = <<"0">> -> Selected("parseVariableLength", [ai |-> <<"8", "0", "1", "0">>, title |-> <<"CPID">>, maxLength |-> <<>>, numeric |-> FALSE])
                    [] fourthNumber = <<"1">> -> Selected("parseVariableLength", [ai |-> <<"8", "0", "1", "1">>, title |-> <<"CPID SERIAL">>, maxLength |-> <<>>, numeric |-> FALSE])
                    [] fourthNumber = <<"7">> -> Selected("parseVariableLength", [ai |-> <<"8", "0", "1", "7">>, title |-> <<"GSRN - PROVIDER">>, maxLength |-> <<18>>, numeric |-> FALSE])
                    [] fourthNumber = <<"8">> -> Selected("parseVariableLength", [ai |-> <<"8", "0", "1", "8">>, title |-> <<"GSRN - RECIPIENT">>, maxLength |-> <<18>>, numeric |-> TRUE])
                    [] fourthNumber = <<"9">> -> Selected("parseVariableLength", [ai |-> <<"8", "0", "1", "9">>, title |-> <<"SRIN">>, maxLength |-> <<>>, numeric |-> TRUE])
                    [] OTHER -> Throw(InvalidAiError(<<"8", "0", "1">>, fourthNumber)))
              [] thirdNumber = <<"2">> ->
                 (CASE fourthNumber = <<"0">> -> Selected("parseVariableLength", [ai |-> <<"8", "0", "2", "0">>, title |-> <<"REF No">>, maxLength |-> <<>>, numeric |-> FALSE])
                    [] OTHER -> Throw(InvalidAiError(<<"8", "0", "2">>, fourthNumber)))
              [] OTHER -> Throw(InvalidAiError(<<"8", "0">>, thirdNumber)))
        [] secondNumber = <<"1">> ->
           (CASE thirdNumber = <<"0">> ->
                 (CASE fourthNumber = <<"0">> -> Selected("parseVariableLength", [ai |-> <<"8", "1", "0", "0">>, title |-> <<"-">>, maxLength |-> <<6>>, numeric |-> FALSE])
                    [] fourthNumber = <<"1">> -> Selected("parseVariableLength", [ai |-> <<"8", "1", "0", "1">>, title |-> <<"-">>, maxLength |-> <<10>>, numeric |-> FALSE])
                    [] fourthNumber = <<"2">> -> Selected("parseVariableLength", [ai |-> <<"8", "1", "0", "2">>, title |-> <<"-">>, maxLength |-> <<2>>, numeric |-> FALSE])
                    [] OTHER -> Throw(InvalidAiError(<<"8", "1", "0">>, fourthNumber)))
              [] thirdNumber = <<"1">> ->
                 (CASE fourthNumber = <<"0">> -> Selected("parseVariableLength", [ai |-> <<"8", "1", "1", "0">>, title |-> <<"-">>, maxLength |-> <<>>, numeric |-> FALSE])
                    [] OTHER -> Throw(InvalidAiError(<<"8", "1", "1">>, fourthNumber)))
              [] OTHER -> Throw(InvalidAiError(<<"8", "1">>, thirdNumber)))
        [] secondNumber = <<"2">> ->
           (CASE thirdNumber = <<"0">> -> Selected("parseVariableLength", [ai |-> <<"8", "2", "0", "0">>, title |-> <<"PRODUCT URL">>, maxLength |-> <<>>, numeric |-> FALSE])
              [] OTHER -> Throw(InvalidAiError(<<"8", "2">>, thirdNumber)))
        [] OTHER -> Throw(InvalidAiError(<<"8">>, secondNumber))

\* case "9" of the switch on firstNumber
identifyAI_9(codestring, lotLen) ==
  LET secondNumber == slice(codestring, 1, 2)
      thirdNumber  == slice(codestring, 2, 3)
      fourthNumber == slice(codestring, 3, 4)
  IN
      CASE secondNumber = <<"0">> -> Selected("parseVariableLength", [ai |-> <<"9", "0">>, title |-> <<"INTERNAL">>, maxLength |-> <<>>, numeric |-> FALSE])
        [] secondNumber = <<"1">> -> Selected("parseVariableLength", [ai |-> <<"9", "1">>, title |-> <<"INTERNAL">>, maxLength |-> <<>>, numeric |-> FALSE])
        [] secondNumber = <<"2">> -> Selected("parseVariableLength", [ai |-> <<"9", "2">>, title |-> <<"INTERNAL">>, maxLength |-> <<>>, numeric |-> FALSE])
        [] secondNumber = <<"3">> -> Selected("parseVariableLength", [ai |-> <<"9", "3">>, title |-> <<"INTERNAL">>, maxLength |-> <<>>, numeric |-> FALSE])
        [] secondNumber = <<"4">> -> Selected("parseVariableLength", [ai |-> <<"9", "4">>, title |-> <<"INTERNAL">>, maxLength |-> <<>>, numeric |-> FALSE])
        [] secondNumber = <<"5">> -> Selected("parseVariableLength", [ai |-> <<"9", "5">>, title |-> <<"INTERNAL">>, maxLength |-> <<>>, numeric |-> FALSE])
        [] secondNumber = <<"6">> -> Selected("parseVariableLength", [ai |-> <<"9", "6">>, title |-> <<"INTERNAL">>, maxLength |-> <<>>, numeric |-> FALSE])
        [] secondNumber = <<"7">> -> Selected("parseVariableLength", [ai |-> <<"9", "7">>, title |-> <<"INTERNAL">>, maxLength |-> <<>>, numeric |-> FALSE])
        [] secondNumber = <<"8">> -> Selected("parseVariableLength", [ai |-> <<"9", "8">>, title |-> <<"INTERNAL">>, maxLength |-> <<>>, numeric |-> FALSE])
        [] secondNumber = <<"9">> -> Selected("parseVariableLength", [ai |-> <<"9", "9">>, title |-> <<"INTERNAL">>, maxLength |-> <<>>, numeric |-> FALSE])
        [] OTHER -> Throw(InvalidAiError(<<"9">>, secondNumber))

\* identifyAI(codestring, lotLen, fncChar): fncChar is <<>> when the argument
\* is omitted, <<c>> otherwise.  The switch selects the parser and its
\* arguments, or throws; the selected parser is then called.
identifyAI(codestring, lotLen, fncChar) ==
  LET fnc         == IF fncChar = <<>> THEN GROUP_SEPARATOR ELSE fncChar[1]
      firstNumber == slice(codestring, 0, 1)
      selected    ==
        CASE firstNumber = <<"0">> -> identifyAI_0(codestring, lotLen)
          [] firstNumber = <<"1">> -> identifyAI_1(codestring, lotLen)
          [] firstNumber = <<"2">> -> identifyAI_2(codestring, lotLen)
          [] firstNumber = <<"3">> -> identifyAI_3(codestring, lotLen)
          [] firstNumber = <<"4">> -> identifyAI_4(codestring, lotLen)
          [] firstNumber = <<"7">> -> identifyAI_7(codestring, lotLen)
          [] firstNumber = <<"8">> -> identifyAI_8(codestring, lotLen)
          [] firstNumber = <<"9">> -> identifyAI_9(codestring, lotLen)
          [] OTHER -> Throw(InvalidAiError(<<>>, firstNumber))
  IN  IF selected.ok THEN invoke(selected, codestring, fnc) ELSE selected

\* ------------------------------------------------------------------------
\* parseBarcode and GS1Parser
\* ------------------------------------------------------------------------

\* parseBarcode without the guard on the empty barcode
emptyCheckAbsent(barcode) ==
  [ok |-> TRUE]

\* The guard at the top of parseBarcode: !barcode is true of the empty string.
emptyCheck(barcode) ==
  IF barcode = <<>> THEN Throw(BarcodeError("EmptyBarcode", "31"))
  ELSE [ok |-> TRUE]

\* the symbology step naming the code without chopping the identifier off
symbologyIdentifierKeepsIdentifier(barcode) ==
  LET id   == slice(barcode, 0, 3)
      rest == barcode
  IN  CASE id = <<"]", "C", "1">> -> [codeName |-> "GS1-128", restOfBarcode |-> rest]
        [] id = <<"]", "e", "0">> -> [codeName |-> "GS1 DataBar", restOfBarcode |-> rest]
        [] id = <<"]", "e", "1">> -> [codeName |-> "GS1 Composite", restOfBarcode |-> rest]
        [] id = <<"]", "e", "2">> -> [codeName |-> "GS1 Composite", restOfBarcode |-> rest]
        [] id = <<"]", "d", "2">> -> [codeName |-> "GS1 DataMatrix", restOfBarcode |-> rest]
        [] id = <<"]", "Q", "3">> -> [codeName |-> "GS1 QR Code", restOfBarcode |-> rest]
        [] OTHER -> [codeName |-> "", restOfBarcode |-> barcode]

\* First step of parseBarcode: chop off a symbology identifier.
symbologyIdentifier(barcode) ==
  LET id   == slice(barcode, 0, 3)
      rest == slice(barcode, 3, Len(barcode))
  IN  CASE id = <<"]", "C", "1">> -> [codeName |-> "GS1-128", restOfBarcode |-> rest]
        [] id = <<"]", "e", "0">> -> [codeName |-> "GS1 DataBar", restOfBarcode |-> rest]
        [] id = <<"]", "e", "1">> -> [codeName |-> "GS1 Composite", restOfBarcode |-> rest]
        [] id = <<"]", "e", "2">> -> [codeName |-> "GS1 Composite", restOfBarcode |-> rest]
        [] id = <<"]", "d", "2">> -> [codeName |-> "GS1 DataMatrix", restOfBarcode |-> rest]
        [] id = <<"]", "Q", "3">> -> [codeName |-> "GS1 QR Code", restOfBarcode |-> rest]
        [] OTHER -> [codeName |-> "", restOfBarcode |-> barcode]

\* handleInternalError(error): the error thrown in its place.
handleInternalError(error) ==
  CASE error.code = "32" -> BarcodeError("InvalidNormalAI", "32")
    [] error.code = "33" -> BarcodeError("InvalidDate", "33")
    [] error.code = "34" -> BarcodeError("InvalidDate", "34")
    [] error.code = "36" -> BarcodeError("InvalidNum", "36")
    [] OTHER -> error

\* the loop raising EmptyVariableLengthData when two terminators follow an element
loopBodyRejectsDoubleTerminator(restOfBarcode, fncChar, lotLen) ==
  LET currentElement == identifyAI(restOfBarcode, lotLen, <<>>)
  IN  IF currentElement.ok /\ slice(currentElement.codestring, 0, 2) = <<fncChar, fncChar>>
        THEN Throw(BarcodeError("EmptyVariableLengthData", "38"))
      ELSE IF currentElement.ok
        THEN [ok |-> TRUE, currentElement |-> currentElement,
              restOfBarcode |-> cleanCodestring(currentElement.codestring, fncChar)]
      ELSE IF currentElement.error.name = "InternalError"
        THEN Throw(handleInternalError(currentElement.error))
      ELSE Throw(currentElement.error)

\* the catch clause handing every error, internal or not, to handleInternalError
loopBodyMapsEveryError(restOfBarcode, fncChar, lotLen) ==
  LET currentElement == identifyAI(restOfBarcode, lotLen, <<>>)
  IN  IF currentElement.ok
        THEN [ok |-> TRUE, currentElement |-> currentElement,
              restOfBarcode |-> cleanCodestring(currentElement.codestring, fncChar)]
      ELSE Throw(handleInternalError(currentElement.error))

\* One pass of the while loop of parseBarcode, up to the assignment of
\* restOfBarcode: identifyAI is called without a third argument; an error
\* leaves parseBarcode through the catch clause.
loopBody(restOfBarcode, fncChar, lotLen) ==
  LET currentElement == identifyAI(restOfBarcode, lotLen, <<>>)
  IN  IF currentElement.ok
        THEN [ok |-> TRUE, currentElement |-> currentElement,
              restOfBarcode |-> cleanCodestring(currentElement.codestring, fncChar)]
      ELSE IF currentElement.error.name = "InternalError"
        THEN Throw(handleInternalError(currentElement.error))
      ELSE Throw(currentElement.error)

\* the denormalized text with the group separator written after each element
denormalizeWithSeparator(denormalized, element) ==
  denormalized \o <<"(">> \o element.ai \o <<")">> \o element.dataString \o <<GROUP_SEPARATOR>>

\* answer.denormalized += "(" + ai + ")" + dataString
denormalize(denormalized, element) ==
  denormalized \o <<"(">> \o element.ai \o <<")">> \o element.dataString

\* new GS1Parser(options): an absent option is <<>>.
GS1Parser(options) ==
  [fncChar |-> IF options.fncChar = <<>> THEN GROUP_SEPARATOR ELSE options.fncChar[1],
   lotLen  |-> options.lotMaxLength]

\* GS1Parser.decode, the text handed to parseBarcode: "(" becomes the
\* terminator, ")" is dropped, one leading terminator is removed.
normalize(barcode, fncChar) ==
  LET normalized == replaceAll(replaceAll(barcode, "(", <<fncChar>>), ")", <<>>)
  IN  IF startsWith(normalized, fncChar) THEN slice(normalized, 1, Len(normalized))
      ELSE normalized

\* AIMap["ai" + item.ai]; "" stands for undefined (no field name).
AIMap(ai) ==
  CASE ai = <<"0", "0">> -> "SSCC"
    [] ai = <<"0", "1">> -> "GTIN"
    [] ai = <<"0", "2">> -> "item"
    [] ai = <<"1", "0">> -> "batch"
    [] ai = <<"1", "1">> -> "prodDate"
    [] ai = <<"1", "3">> -> "packDate"
    [] ai = <<"1", "5">> -> "safeDate"
    [] ai = <<"1", "7">> -> "expDate"
    [] ai = <<"2", "1">> -> "serial"
    [] ai = <<"2", "4", "0">> -> "additionalProductID"
    [] ai = <<"2", "4", "1">> -> "customerPartNumber"
    [] ai = <<"2", "5", "0">> -> "secondarySerialNumber"
    [] ai = <<"3", "0">> -> "variableCount"
    [] ai = <<"3", "1", "0", "3">> -> "netWeightKg"
    [] ai = <<"3", "1", "0", "6">> -> "netWeightKg6"
    [] ai = <<"3", "2", "0", "3">> -> "netWeightLb"
    [] ai = <<"3", "2", "0", "6">> -> "netWeightLb6"
    [] ai = <<"3", "7">> -> "count"
    [] ai = <<"3", "9", "2", "0">> -> "price"
    [] ai = <<"3", "9", "3", "0">> -> "priceWithISO"
    [] ai = <<"4", "0", "0">> -> "customerInformation"
    [] ai = <<"4", "0", "1">> -> "countryOfOrigin"
    [] ai = <<"4", "1", "0">> -> "shipToPostalCode"
    [] ai = <<"4", "1", "1">> -> "billToPostalCode"
    [] ai = <<"4", "1", "2">> -> "purchaserPostalCode"
    [] ai = <<"4", "1", "3">> -> "shipToCity"
    [] ai = <<"4", "1", "4">> -> "globalLocationNumber"
    [] ai = <<"4", "1", "5">> -> "shipToState"
    [] ai = <<"4", "1", "6">> -> "countryCode"
    [] ai = <<"4", "2", "0">> -> "postalCodeOfOrigin"
    [] ai = <<"4", "2", "1">> -> "shipFromPostalCode"
    [] ai = <<"4", "2", "2">> -> "languageIndicator"
    [] ai = <<"4", "2", "3">> -> "countrySubdivision"
    [] ai = <<"7", "0", "0", "1">> -> "nsn"
    [] ai = <<"7", "0", "0", "2">> -> "ndc"
    [] ai = <<"7", "0", "3", "0">> -> "lotNumber"
    [] ai = <<"7", "0", "3", "1">> -> "epc"
    [] ai = <<"7", "0", "3", "2">> -> "scc"
    [] ai = <<"8", "0", "0", "1">> -> "uvci"
    [] ai = <<"8", "0", "0", "2">> -> "mri"
    [] ai = <<"8", "0", "0", "3">> -> "plb"
    [] ai = <<"8", "0", "1", "8">> -> "ssi"
    [] ai = <<"8", "0", "2", "0">> -> "udid"
    [] ai = <<"8", "1", "0", "0">> -> "pricePerUnit"
    [] ai = <<"8", "1", "1", "0">> -> "netVolumeLiters"
    [] ai = <<"8", "2", "0", "0">> -> "productVariant"
    [] ai = <<"9", "0">> -> "custom0"
    [] ai = <<"9", "1">> -> "custom1"
    [] ai = <<"9", "2">> -> "custom2"
    [] ai = <<"9", "3">> -> "custom3"
    [] ai = <<"9", "4">> -> "custom4"
    [] ai = <<"9", "5">> -> "custom5"
    [] ai = <<"9", "6">> -> "custom6"
    [] ai = <<"9", "7">> -> "custom7"
    [] ai = <<"9", "8">> -> "custom8"
    [] ai = <<"9", "9">> -> "custom9"
    [] OTHER -> ""

\* GS1Parser.decode, the loop over parsed.parsedCodeItems: a later element of
\* the same field name replaces the earlier one.
RECURSIVE filteredItems(_)
\* the loop over the parsed elements keeping the first element of a field name
filteredItemsKeepsFirst(items) ==
  IF items = <<>> THEN <<>>
  ELSE LET before == filteredItems(SubSeq(items, 1, Len(items) - 1))
           item   == items[Len(items)]
           prop   == AIMap(item.ai)
       IN  IF prop # ""
             THEN [p \in (DOMAIN before) \cup {prop} |-> IF p = prop /\ prop \notin DOMAIN before THEN item ELSE before[p]]
             ELSE before

filteredItems(items) ==
  IF items = <<>> THEN <<>>
  ELSE LET before == filteredItems(SubSeq(items, 1, Len(items) - 1))
           item   == items[Len(items)]
           prop   == AIMap(item.ai)
       IN  IF prop # ""
             THEN [p \in (DOMAIN before) \cup {prop} |-> IF p = prop THEN item ELSE before[p]]
             ELSE before

NoResult == [returned |-> FALSE]

DecodeResult(codeName, denormalized, data) ==
  [returned |-> TRUE, codeName |-> codeName, denormalized |-> denormalized, data |-> data]

\* ------------------------------------------------------------------------
\* Inputs
\* ------------------------------------------------------------------------

\* An input is built from a symbology prefix and a sequence of segments, each
\* an AI, a payload and the separator written after it.
Segment(ai, data) == [ai |-> ai, data |-> data]

WithSep(seg, sep) == [ai |-> seg.ai, data |-> seg.data, sep |-> sep]

GTIN == Segment(<<"0", "1">>, <<"0", "4", "0", "1", "2", "3", "4", "5", "6", "7", "8", "9", "0", "1">>)

\* well-formed AI + payload pairs
ValidSegments ==
  { GTIN,
    Segment(<<"1", "7">>, <<"1", "5", "0", "1", "2", "9">>),
    Segment(<<"1", "0">>, <<"A", "B", "C", "1", "2", "3">>),
    Segment(<<"3", "9", "3", "2">>, <<"9", "7", "8", "4", "7", "1", "1">>),
    Segment(<<"3", "1", "0", "3">>, <<"0", "0", "0", "5", "2", "5">>),
    Segment(<<"4", "2", "1">>, <<"2", "7", "6", "4", "9", "7", "1", "6">>),
    Segment(<<"2", "1">>, <<"S", "E", "R", "1">>),
    Segment(<<"0", "0">>, <<"0", "0", "1", "2", "3", "4", "5", "6", "7", "8", "9", "0", "1", "2", "3", "4", "5", "6">>),
    Segment(<<"2", "0">>, <<"1", "2">>),
    Segment(<<"3", "9", "2", "2">>, <<"4", "7", "1", "1">>),
    Segment(<<"7", "0", "3", "1">>, <<"2", "7", "6", "A", "B">>),
    Segment(<<"8", "0", "1", "8">>, <<"1", "2", "3">>),
    Segment(<<"1", "1">>, <<"2", "2", "1", "2", "0", "0">>),
    Segment(<<"0", "2">>, <<"0", "4", "0", "1", "2", "3", "4", "5", "6", "7", "8", "9", "0", "A">>),
    Segment(<<"4", "1", "4">>, <<"4", "0", "1", "2", "3", "4", "5", "6", "7", "8", "9", "0", "1">>) }

\* malformed pairs, and AIs the dispatch does not know
FaultySegments ==
  { Segment(<<"2", "6">>, <<"1">>),
    Segment(<<"1", "0">>, <<>>),
    Segment(<<"0", "1">>, <<"0", "4", "0", "1", "2", "3", "4", "5", "6", "7", "8", "9", "0">>),
    Segment(<<"0", "1">>, <<"0", "4", "0", "1", "2", "3", "4", "5", "6", "7", "8", "9", "0", "X">>),
    Segment(<<"0", "1">>, <<>>),
    Segment(<<"0", "0">>, <<"0", "0", "1", "2", "3", "4", "5", "6", "7", "8", "9", "0", "1", "2", "3", "4", "5", "X">>),
    Segment(<<"1", "7">>, <<"9", "9", "1", "3", "3", "2">>),
    Segment(<<"8", "0", "1", "8">>, <<"1", "2", "A">>),
    Segment(<<"4", "3", "0", "0">>, <<"A", "C", "M", "E">>),
    Segment(<<"4", "3", "3", "1">>, <<"0", "0", "0", "2", "3", "5">>),
    Segment(<<"5", "1">>, <<"2", "3">>),
    Segment(<<"2", "5", "2">>, <<"1">>),
    Segment(<<"7", "0", "1", "0">>, <<"1">>),
    Segment(<<"1", "4">>, <<"1", "5", "0", "1", "2", "9">>),
    Segment(<<"2", "0">>, <<"1">>),
    Segment(<<"1", "0">>, <<"A", "B", "C", "D", "E", "F", "G", "H", "I", "J", "K", "L", "M", "N", "O", "P", "Q", "R", "S", "T", "1", "7", "1", "5", "0", "1", "2", "9">>) }

CoreSegments ==
  { GTIN,
    Segment(<<"1", "7">>, <<"1", "5", "0", "1", "2", "9">>),
    Segment(<<"1", "0">>, <<"A", "B", "C", "1", "2", "3">>),
    Segment(<<"3", "9", "3", "2">>, <<"9", "7", "8", "4", "7", "1", "1">>),
    Segment(<<"3", "1", "0", "3">>, <<"0", "0", "0", "5", "2", "5">>),
    Segment(<<"4", "2", "1">>, <<"2", "7", "6", "4", "9", "7", "1", "6">>),
    Segment(<<"2", "0">>, <<"1", "2">>),
    Segment(<<"2", "6">>, <<"1">>),
    Segment(<<"1", "0">>, <<>>) }

Library == ValidSegments \cup FaultySegments

CoreSeps == { <<>>, <<GROUP_SEPARATOR>> }

AllSeps == { <<>>, <<GROUP_SEPARATOR>>, <<GROUP_SEPARATOR, GROUP_SEPARATOR>>, <<"|">> }

\* the longest sequence of core segments
MaxSegs == 2

CoreVectors ==
  UNION { [1..n -> { WithSep(s, sep) : s \in CoreSegments, sep \in CoreSeps }] : n \in 0..MaxSegs }

SingleVectors == { <<WithSep(s, sep)>> : s \in Library, sep \in AllSeps }

GtinVectors ==
  { <<WithSep(GTIN, g), WithSep(s, sep)>> : g \in CoreSeps, s \in Library, sep \in AllSeps }

\* the use case of the README: ]C1 and seven elements, no separator
ReadmeVector ==
  << WithSep(GTIN, <<>>),
     WithSep(Segment(<<"1", "7">>, <<"1", "5", "0", "1", "2", "9">>), <<>>),
     WithSep(Segment(<<"1", "0">>, <<"A", "B", "C", "1", "2", "3">>), <<>>),
     WithSep(Segment(<<"3", "9", "3", "2">>, <<"9", "7", "8", "4", "7", "1", "1">>), <<>>),
     WithSep(Segment(<<"3", "1", "0", "3">>, <<"0", "0", "0", "5", "2", "5">>), <<>>),
     WithSep(Segment(<<"3", "9", "2", "2">>, <<"4", "7", "1", "1">>), <<>>),
     WithSep(Segment(<<"4", "2", "1">>, <<"2", "7", "6", "4", "9", "7", "1", "6">>), <<>>) >>

SymbologyIdentifiers == { <<"]", "C", "1">>, <<"]", "e", "0">>, <<"]", "e", "1">>, <<"]", "e", "2">>, <<"]", "d", "2">>, <<"]", "Q", "3">> }

Prefixes == SymbologyIdentifiers \cup { <<>>, <<"]", "X", "9">> }

DefaultOptions == [fncChar |-> <<>>, lotMaxLength |-> <<>>]

Options ==
  { DefaultOptions,
    [fncChar |-> <<"|">>, lotMaxLength |-> <<>>],
    [fncChar |-> <<>>, lotMaxLength |-> <<3>>],
    [fncChar |-> <<>>, lotMaxLength |-> <<0>>] }

RECURSIVE Terminated(_)
Terminated(segs) ==
  IF segs = <<>> THEN <<>>
  ELSE Head(segs).ai \o Head(segs).data \o Head(segs).sep \o Terminated(Tail(segs))

RECURSIVE HumanReadable(_)
HumanReadable(segs) ==
  IF segs = <<>> THEN <<>>
  ELSE <<"(">> \o Head(segs).ai \o <<")">> \o Head(segs).data \o HumanReadable(Tail(segs))

\* ------------------------------------------------------------------------
\* State
\* ------------------------------------------------------------------------

VARIABLES
  parser,           \* the GS1Parser instance: fncChar and lotLen
  prefix,           \* the symbology prefix of the input
  vector,           \* the segments of the input
  call,             \* 1 for the first decode call on the parser, 2 for the second
  mode,             \* what the current call was given: "terminated", "denormalized", "human"
  barcode,          \* the argument of the current GS1Parser.decode call
  pc,               \* "idle", "symbology", "scanning", "done", "failed"
  codeName,         \* answer.codeName
  restOfBarcode,    \* parseBarcode's restOfBarcode
  parsedCodeItems,  \* answer.parsedCodeItems
  denormalized,     \* answer.denormalized
  currentElement,   \* the ParseResult of the last successful identifyAI call
  given,            \* the remainder handed to the last identifyAI call
  dispatched,       \* identifyAI calls made in the current decode call
  raised,           \* the errors the current decode call has thrown to its caller
  result,           \* the DecodeResult the current decode call returned
  first             \* the outcome of the first decode call, once the second has begun

vars == << parser, prefix, vector, call, mode, barcode, pc, codeName, restOfBarcode,
           parsedCodeItems, denormalized, currentElement, given, dispatched, raised,
           result, first >>

Unassigned == [ok |-> FALSE, unassigned |-> TRUE]

NoOutcome == [pc |-> "none"]

Outcome == [pc |-> pc, codeName |-> codeName, parsedCodeItems |-> parsedCodeItems,
            denormalized |-> denormalized, raised |-> raised, result |-> result]

InitLocals ==
  /\ pc = "idle"
  /\ call = 1
  /\ mode = "terminated"
  /\ barcode = prefix \o Terminated(vector)
  /\ codeName = ""
  /\ restOfBarcode = <<>>
  /\ parsedCodeItems = <<>>
  /\ denormalized = <<>>
  /\ currentElement = Unassigned
  /\ given = <<>>
  /\ dispatched = 0
  /\ raised = <<>>
  /\ result = NoResult
  /\ first = NoOutcome

Init ==
  /\ \/ /\ vector \in CoreVectors
        /\ prefix = <<>>
        /\ parser = GS1Parser(DefaultOptions)
     \/ /\ vector \in SingleVectors \cup GtinVectors
        /\ prefix \in Prefixes
        /\ parser = GS1Parser(DefaultOptions)
     \/ /\ vector \in SingleVectors \cup GtinVectors
        /\ prefix = <<>>
        /\ parser \in { GS1Parser(o) : o \in Options }
     \/ /\ vector = ReadmeVector
        /\ prefix \in { <<>>, <<"]", "C", "1">> }
        /\ parser = GS1Parser(DefaultOptions)
  /\ InitLocals

\* ------------------------------------------------------------------------
\* Actions
\* ------------------------------------------------------------------------

\* GS1Parser.decode(input) up to the guard of parseBarcode.
Enter(input) ==
  \E normalized \in {normalize(input, parser.fncChar)} :
    \E checked \in {emptyCheck(normalized)} :
      /\ barcode' = input
      /\ codeName' = ""
      /\ restOfBarcode' = IF checked.ok THEN normalized ELSE <<>>
      /\ parsedCodeItems' = <<>>
      /\ denormalized' = <<>>
      /\ currentElement' = Unassigned
      /\ given' = <<>>
      /\ dispatched' = 0
      /\ result' = NoResult
      /\ pc' = IF checked.ok THEN "symbology" ELSE "failed"
      /\ raised' = IF checked.ok THEN <<>> ELSE <<checked.error>>

\* the first call: decode(barcode)
Decode ==
  /\ pc = "idle"
  /\ Enter(barcode)
  /\ UNCHANGED << parser, prefix, vector, call, mode, first >>

\* parseBarcode, first step: the symbology identifier
Strip ==
  /\ pc = "symbology"
  /\ \E s \in {symbologyIdentifier(restOfBarcode)} :
         /\ codeName' = s.codeName
         /\ restOfBarcode' = s.restOfBarcode
  /\ pc' = "scanning"
  /\ UNCHANGED << parser, prefix, vector, call, mode, barcode, parsedCodeItems,
                  denormalized, currentElement, given, dispatched, raised, result, first >>

\* parseBarcode, one pass of the while loop
Step ==
  /\ pc = "scanning"
  /\ Len(restOfBarcode) > 0
  /\ \E r \in {loopBody(restOfBarcode, parser.fncChar, parser.lotLen)} :
         /\ given' = restOfBarcode
         /\ dispatched' = dispatched + 1
         /\ IF r.ok
              THEN /\ currentElement' = r.currentElement
                   /\ restOfBarcode' = r.restOfBarcode
                   /\ parsedCodeItems' = Append(parsedCodeItems, r.currentElement.element)
                   /\ denormalized' = denormalize(denormalized, r.currentElement.element)
                   /\ UNCHANGED << pc, raised >>
              ELSE /\ pc' = "failed"
                   /\ raised' = Append(raised, r.error)
                   /\ UNCHANGED << currentElement, restOfBarcode, parsedCodeItems, denormalized >>
  /\ UNCHANGED << parser, prefix, vector, call, mode, barcode, codeName, result, first >>

\* parseBarcode returns its answer and GS1Parser.decode its DecodeResult
Finish ==
  /\ pc = "scanning"
  /\ Len(restOfBarcode) = 0
  /\ pc' = "done"
  /\ result' = DecodeResult(codeName, denormalized, filteredItems(parsedCodeItems))
  /\ UNCHANGED << parser, prefix, vector, call, mode, barcode, codeName, restOfBarcode,
                  parsedCodeItems, denormalized, currentElement, given, dispatched,
                  raised, first >>

\* the caller decodes the denormalized text of a successful first call
DecodeDenormalized ==
  /\ pc = "done"
  /\ call = 1
  /\ call' = 2
  /\ mode' = "denormalized"
  /\ first' = Outcome
  /\ Enter(result.denormalized)
  /\ UNCHANGED << parser, prefix, vector >>

\* the caller decodes the same segments in human-readable notation
DecodeHumanReadable ==
  /\ pc \in {"done", "failed"}
  /\ call = 1
  /\ call' = 2
  /\ mode' = "human"
  /\ first' = Outcome
  /\ Enter(prefix \o HumanReadable(vector))
  /\ UNCHANGED << parser, prefix, vector >>

Next ==
  \/ Decode
  \/ Strip
  \/ Step
  \/ Finish
  \/ DecodeDenormalized
  \/ DecodeHumanReadable

Spec == Init /\ [][Next]_vars

\* ------------------------------------------------------------------------
\* The AI dispatch on every digit prefix
\* ------------------------------------------------------------------------

\* a run of digits long enough for every fixed-length field
DigitPayload == <<"0", "1", "0", "2", "0", "3", "0", "4", "0", "5", "0", "6", "0", "7", "0", "8", "0", "9">>

\* every string of four digits, each as the AI of a segment
DigitVectors ==
  { <<WithSep(Segment(<<d[1], d[2], d[3], d[4]>>, DigitPayload), <<>>)>> :
      d \in [1..4 -> Digits] }

InitAI ==
  /\ \/ vector \in DigitVectors
     \/ vector \in { <<WithSep(GTIN, <<>>)>> \o v : v \in DigitVectors }
     \/ vector \in { <<WithSep(Segment(<<d>>, <<>>), <<>>)>> : d \in Digits }
  /\ prefix = <<>>
  /\ parser = GS1Parser(DefaultOptions)
  /\ InitLocals

SpecAI == InitAI /\ [][Next]_vars

\* ------------------------------------------------------------------------
\* Properties
\* ------------------------------------------------------------------------

IsPrefix(p, s) == Len(p) <= Len(s) /\ SubSeq(s, 1, Len(p)) = p

Finished == pc \in {"done", "failed"}

Running == pc \in {"symbology", "scanning"}

\* the last identifyAI call returned: currentElement is its result on given
Returned == dispatched > 0 /\ pc # "failed" /\ currentElement.ok

\* an element without its title: ai, value, unit, dataString
Typed(e) == [ai |-> e.ai, data |-> e.data, unit |-> e.unit, dataString |-> e.dataString]

TypedElements(items) == [i \in 1..Len(items) |-> Typed(items[i])]

\* C1: every decode call terminates.  Each successful identifyAI call returns
\* a remainder strictly shorter than the one it was given; every pass of the
\* loop either ends the call (return or throw) or leaves a strictly shorter
\* remainder; and the number of passes is bounded by the length of the input.
C1_Terminates ==
  /\ [](Returned => Len(currentElement.codestring) < Len(given))
  /\ [](Running => dispatched + Len(restOfBarcode) <= Len(barcode))
  /\ [][pc = "scanning" /\ call' = call =>
          \/ pc' \in {"done", "failed"}
          \/ pc' = "scanning" /\ Len(restOfBarcode') < Len(restOfBarcode)]_vars

C1_Witness ==
  /\ pc = "done"
  /\ dispatched >= 2
  /\ Returned
  /\ Len(currentElement.codestring) < Len(given)

\* C2: a decode call that meets a fault returns no result and raises exactly
\* one error, the error of the first faulty element from the left: every
\* dispatch before it succeeded, and nothing is dispatched after it.
C2_FaultAborts ==
  /\ [](pc = "failed" =>
          /\ result = NoResult
          /\ Len(raised) = 1
          /\ dispatched = 0 => raised[1] = BarcodeError("EmptyBarcode", "31")
          /\ dispatched > 0 =>
               /\ Len(parsedCodeItems) = dispatched - 1
               /\ given = restOfBarcode
               /\ ~identifyAI(given, parser.lotLen, <<>>).ok
               /\ raised[1] = identifyAI(given, parser.lotLen, <<>>).error)
  /\ [][pc = "failed" /\ call' = call =>
          /\ pc' = "failed"
          /\ dispatched' = dispatched
          /\ raised' = raised
          /\ result' = result
          /\ parsedCodeItems' = parsedCodeItems]_vars

C2_Witness ==
  /\ pc = "failed"
  /\ dispatched >= 2
  /\ Len(parsedCodeItems) = dispatched - 1
  /\ Len(raised) = 1
  /\ denormalized # <<>>
  /\ result = NoResult

\* the input of the first call is purely known AIs with payloads free of
\* parentheses and terminators, each segment closed by one terminator
TerminatorDelimited ==
  /\ vector # <<>>
  /\ \A i \in 1..Len(vector) :
       /\ Segment(vector[i].ai, vector[i].data) \in ValidSegments
       /\ vector[i].sep = <<GROUP_SEPARATOR>>
  /\ parser = GS1Parser(DefaultOptions)

\* C3: round trip.  Decoding the denormalized text of a successful decode
\* yields the same elements (ai, value, unit, dataString) as the decode of
\* the terminator-delimited input.
C3_RoundTrip ==
  (call = 2 /\ mode = "denormalized" /\ Finished /\ TerminatorDelimited) =>
    /\ pc = "done"
    /\ TypedElements(parsedCodeItems) = TypedElements(first.parsedCodeItems)

\* C4: with or without a symbology identifier, the human-readable form and
\* the terminator-delimited form of the same valid segments decode to the
\* same codeName and the same elements.
C4_NotationsEquivalent ==
  (call = 2 /\ mode = "human" /\ Finished /\ TerminatorDelimited
     /\ prefix \in SymbologyIdentifiers \cup {<<>>}) =>
    /\ pc = first.pc
    /\ codeName = first.codeName
    /\ parsedCodeItems = first.parsedCodeItems

\* AIs of the input library that parseVariableLength decodes
PlainVariableAIs == { <<"1", "0">>, <<"2", "1">>, <<"8", "0", "1", "8">> }

\* C5: a variable-length field ends at the next occurrence of the configured
\* terminator, whatever character is configured.
C5_ConfiguredTerminator ==
  (Returned /\ currentElement.element.ai \in PlainVariableAIs
     /\ indexOf(given, parser.fncChar) # -1) =>
    currentElement.element.dataString =
      slice(given, Len(currentElement.element.ai), indexOf(given, parser.fncChar))

ReadmeInput ==
  <<"]", "C", "1", "0", "1", "0", "4", "0", "1", "2", "3", "4", "5", "6", "7", "8", "9", "0", "1", "1", "7", "1", "5", "0", "1", "2", "9", "1", "0", "A", "B", "C", "1", "2", "3", "3", "9", "3", "2", "9", "7", "8", "4", "7", "1", "1", "3", "1", "0", "3", "0", "0", "0", "5", "2", "5", "3", "9", "2", "2", "4", "7", "1", "1", "4", "2", "1", "2", "7", "6", "4", "9", "7", "1", "6">>

HasElement(ai, data, unit) ==
  \E i \in 1..Len(parsedCodeItems) :
    /\ parsedCodeItems[i].ai = ai
    /\ parsedCodeItems[i].data = data
    /\ parsedCodeItems[i].unit = unit

\* C6: the README input, exactly as written, decodes to GS1-128 with
\* 01 = 04012345678901, 17 = 2015-01-29, 10 = ABC123, 3932 = 47.11 (978)
\* and 3103 = 0.525 (KGM).
C6_ReadmeUseCase ==
  (call = 1 /\ barcode = ReadmeInput /\ Finished) =>
    /\ pc = "done"
    /\ codeName = "GS1-128"
    /\ HasElement(<<"0", "1">>, StringValue(<<"0", "4", "0", "1", "2", "3", "4", "5", "6", "7", "8", "9", "0", "1">>), <<>>)
    /\ HasElement(<<"1", "7">>, MakeDay(2015, 0, 29), <<>>)
    /\ HasElement(<<"1", "0">>, StringValue(<<"A", "B", "C", "1", "2", "3">>), <<>>)
    /\ HasElement(<<"3", "9", "3", "2">>, Num(FALSE, <<"4", "7">>, <<"1", "1">>), <<"9", "7", "8">>)
    /\ HasElement(<<"3", "1", "0", "3">>, Num(FALSE, <<>>, <<"5", "2", "5">>), <<"K", "G", "M">>)

\* segments of the range 4300-4333 with a payload the tests give as valid
TransportSegments == { Segment(<<"4", "3", "0", "0">>, <<"A", "C", "M", "E">>), Segment(<<"4", "3", "3", "1">>, <<"0", "0", "0", "2", "3", "5">>) }

\* C7: a remainder that starts with an AI of 4300-4333 and a valid payload
\* is decoded into an element with that AI.
C7_TransportAIs ==
  \A s \in TransportSegments :
    (dispatched > 0 /\ IsPrefix(s.ai \o s.data, given)) =>
      /\ Returned
      /\ currentElement.element.ai = s.ai

\* the digit prefixes the dispatch marks as not used or not defined
NotUsedPrefixes ==
  { <<"1", "4">>, <<"1", "8">>, <<"1", "9">>, <<"2", "6">>, <<"2", "7">>, <<"2", "8">>, <<"2", "9">>, <<"3", "8">>,
    <<"5">>, <<"6">>, <<"2", "5", "2">>, <<"7", "0", "1">>, <<"7", "0", "2">> }

NotUsed(s) == \E p \in NotUsedPrefixes : IsPrefix(p, s)

\* C8: at a remainder that starts with a prefix marked not used, decode
\* raises InvalidAI; no element is ever produced for such a prefix.
C8_NotUsedRaisesInvalidAI ==
  /\ (dispatched > 0 /\ NotUsed(given)) =>
       /\ pc = "failed"
       /\ Len(raised) = 1
       /\ raised[1].name = "InvalidAiError"
       /\ Len(parsedCodeItems) = dispatched - 1
  /\ \A i \in 1..Len(parsedCodeItems) : ~NotUsed(parsedCodeItems[i].ai)

C8_Witness ==
  /\ pc = "failed"
  /\ dispatched = 2
  /\ IsPrefix(<<"7", "0", "2">>, given)
  /\ raised[1] = InvalidAiError(<<"7", "0">>, <<"2">>)

\* C9: decode of the empty string raises EmptyBarcode before the symbology
\* step and before any dispatch, and returns no result.
C9_EmptyBarcode ==
  (barcode = <<>> /\ pc # "idle") =>
    /\ pc = "failed"
    /\ raised = <<BarcodeError("EmptyBarcode", "31")>>
    /\ dispatched = 0
    /\ codeName = ""
    /\ parsedCodeItems = <<>>
    /\ result = NoResult

C9_Witness ==
  /\ barcode = <<>>
  /\ pc = "failed"
  /\ raised = <<BarcodeError("EmptyBarcode", "31")>>

\* the fixed-length AIs: stem, length, numeric-only
FixedLengthAIs ==
  { [ai |-> <<"0", "0">>, length |-> 18, numeric |-> TRUE],
    [ai |-> <<"0", "1">>, length |-> 14, numeric |-> TRUE],
    [ai |-> <<"0", "2">>, length |-> 14, numeric |-> FALSE],
    [ai |-> <<"0", "3">>, length |-> 14, numeric |-> FALSE],
    [ai |-> <<"2", "0">>, length |-> 2, numeric |-> FALSE],
    [ai |-> <<"4", "1", "0">>, length |-> 13, numeric |-> FALSE],
    [ai |-> <<"4", "1", "1">>, length |-> 13, numeric |-> FALSE],
    [ai |-> <<"4", "1", "2">>, length |-> 13, numeric |-> FALSE],
    [ai |-> <<"4", "1", "3">>, length |-> 13, numeric |-> FALSE],
    [ai |-> <<"4", "1", "4">>, length |-> 13, numeric |-> FALSE],
    [ai |-> <<"4", "1", "5">>, length |-> 13, numeric |-> FALSE],
    [ai |-> <<"4", "1", "6">>, length |-> 13, numeric |-> FALSE],
    [ai |-> <<"4", "1", "7">>, length |-> 13, numeric |-> FALSE],
    [ai |-> <<"4", "2", "2">>, length |-> 3, numeric |-> FALSE],
    [ai |-> <<"4", "2", "4">>, length |-> 3, numeric |-> FALSE],
    [ai |-> <<"4", "2", "5">>, length |-> 3, numeric |-> FALSE],
    [ai |-> <<"4", "2", "6">>, length |-> 3, numeric |-> FALSE] }

AllDigits(s) == \A i \in 1..Len(s) : s[i] \in Digits

\* C10: at a fixed-length AI of length L, fewer than L characters after the
\* stem raise FixedLengthDataTooShort; else a non-digit in a numeric-only
\* field raises NumericDataExpected; else the payload is exactly the L
\* characters and the remainder returned is everything after them, a
\* following terminator included.
C10_FixedLength ==
  \A f \in FixedLengthAIs :
    (dispatched > 0 /\ IsPrefix(f.ai, given)) =>
      LET after   == SubSeq(given, Len(f.ai) + 1, Len(given))
          payload == SubSeq(after, 1, f.length)
      IN  IF Len(after) < f.length
            THEN pc = "failed" /\ raised = <<BarcodeError("FixedLengthDataTooShort", "37")>>
          ELSE IF f.numeric /\ ~AllDigits(payload)
            THEN pc = "failed" /\ raised = <<BarcodeError("NumericDataExpected", "39")>>
          ELSE /\ Returned
               /\ currentElement.element.ai = f.ai
               /\ currentElement.element.dataString = payload
               /\ currentElement.element.data = StringValue(payload)
               /\ currentElement.codestring = SubSeq(after, f.length + 1, Len(after))

C10_Witness ==
  /\ Returned
  /\ IsPrefix(<<"0", "1">>, given)
  /\ currentElement.element.dataString = GTIN.data
  /\ IsPrefix(<<GROUP_SEPARATOR>>, currentElement.codestring)
\* ------------------------------------------------------------------------
\* Decimal measures and the other variable-length fields
\* ------------------------------------------------------------------------

\* the three-digit stems the dispatch hands to parseFixedLengthMeasure
FixedMeasureStems ==
  { <<"3", "1", d>> : d \in {"0", "1", "2", "3", "4", "5", "6"} }
    \cup { <<"3", "2", d>> : d \in Digits }
    \cup { <<"3", "3", d>> : d \in {"0", "1", "2", "3", "4", "5", "6", "7"} }
    \cup { <<"3", "4", d>> : d \in Digits }
    \cup { <<"3", "5", d>> : d \in {"0", "1", "2", "3", "4", "5", "6", "7"} }
    \cup { <<"3", "6", d>> : d \in Digits }

\* the stems handed to parseVariableLengthMeasure and
\* parseVariableLengthWithISONumbers
VariableMeasureStems == { <<"3", "9", "0">>, <<"3", "9", "2">> }

ISONumberStems == { <<"3", "9", "1">>, <<"3", "9", "3">> }

\* the stems handed to parseVariableLengthWithISOChars
ISOCharStems == { <<"4", "2", "1">>, <<"7", "0", "3", "0">>, <<"7", "0", "3", "1">> }

\* what may stand where the fourth digit is expected
FourthNumbers == { <<d>> : d \in Digits } \cup { <<"A">>, <<>> }

FixedMeasurePayloads ==
  { <<>>, <<"0", "0", "0", "2", "3", "5">>, <<"1", "2", "3", "4", "5", "6">>, <<"0", "0", "0", "0", "0", "0">>, <<"1", "2", "3", "4", "5">>, <<"1", "2", "A", "4", "5", "6">>, <<"1", "2", "3", "4", "5", "6", "7">> }

VariableMeasurePayloads ==
  { <<>>, <<"1", "2">>, <<"4", "7", "1", "1">>, <<"0", "0", "0", "2", "3", "5">>, <<"9", "7">>, <<"9", "7", "8">>, <<"9", "7", "8", "4", "7", "1", "1">> }

ISOCharPayloads == { <<>>, <<"2", "7">>, <<"2", "7", "6">>, <<"2", "7", "6", "4", "9", "7", "1", "6">>, <<"2", "7", "6", "A", "B">> }

MeasureSegments ==
  { Segment(stem \o n, p) : stem \in FixedMeasureStems, n \in FourthNumbers,
                            p \in FixedMeasurePayloads }
    \cup { Segment(stem \o n, p) : stem \in VariableMeasureStems \cup ISONumberStems,
                                   n \in FourthNumbers, p \in VariableMeasurePayloads }
    \cup { Segment(stem, p) : stem \in ISOCharStems, p \in ISOCharPayloads }
    \cup { Segment(ai, p) : ai \in { <<"1", "0">>, <<"2", "1">> }, p \in { <<>>, <<"A", "B", "C">> } }

MeasureVectors ==
  { <<WithSep(s, sep)>> : s \in MeasureSegments, sep \in CoreSeps }
    \cup { <<WithSep(GTIN, <<>>), WithSep(s, sep)>> : s \in MeasureSegments, sep \in CoreSeps }

InitMeasure ==
  /\ vector \in MeasureVectors
  /\ prefix = <<>>
  /\ parser = GS1Parser(DefaultOptions)
  /\ InitLocals

SpecMeasure == InitMeasure /\ [][Next]_vars

\* ------------------------------------------------------------------------
\* Dates
\* ------------------------------------------------------------------------

\* the AIs the dispatch hands to parseDate
DateAIs == { <<"1", "1">>, <<"1", "2">>, <<"1", "3">>, <<"1", "5">>, <<"1", "6">>, <<"1", "7">> }

DigitChar(i) == CHOOSE c \in Digits : DigitValue(c) = i

\* the two-digit decimal notation of 0..99
TwoDigits(n) == <<DigitChar(n \div 10), DigitChar(n % 10)>>

YYMMDD(yy, mm, dd) == TwoDigits(yy) \o TwoDigits(mm) \o TwoDigits(dd)

\* every year with every month 00..13 and the days around the month ends;
\* four years with every day 00..32
DateGrid ==
  { YYMMDD(yy, mm, dd) : yy \in 0..99, mm \in 0..13, dd \in {0, 1, 28, 29, 30, 31, 32} }
    \cup { YYMMDD(yy, mm, dd) : yy \in {0, 23, 24, 51}, mm \in 0..13, dd \in 0..32 }

\* the payloads of the date tests, valid and invalid
TestedDates ==
  { <<"0", "0", "0", "1", "0", "1">>, <<"9", "9", "1", "2", "3", "1">>, <<"2", "0", "0", "2", "2", "9">>, <<"0", "4", "0", "2", "2", "9">>, <<"2", "3", "0", "2", "2", "8">>, <<"2", "3", "0", "4", "3", "0">>,
    <<"2", "3", "0", "5", "3", "1">>, <<"2", "2", "1", "2", "0", "0">>, <<"1", "3", "0", "2", "0", "0">>, <<"1", "6", "0", "2", "0", "0">>, <<"2", "1", "0", "4", "0", "0">>,
    <<"0", "0", "0", "0", "0", "0">>, <<"9", "9", "1", "3", "0", "0">>, <<"2", "2", "A", "B", "1", "0">>, <<"1", "2", "3", "4", "5">>, <<"1", "2", "3", "4", "5", "6", "7">>, <<"9", "9", "1", "2", "3", "2">>,
    <<"2", "3", "0", "2", "3", "1">>, <<"2", "3", "0", "2", "3", "0">>, <<"2", "3", "0", "4", "3", "1">>, <<"2", "2", "1", "4", "3", "1">>, <<"2", "3", "0", "3", "1">> }

\* payloads with a character that is no digit, and payloads cut short
MalformedDates ==
  { <<"A", "2", "1", "2", "1", "5">>, <<"2", "A", "1", "2", "1", "5">>, <<"2", "2", "A", "2", "1", "5">>, <<"2", "2", "1", "A", "1", "5">>, <<"2", "2", "1", "2", "A", "5">>, <<"2", "2", "1", "2", "1", "A">>,
    <<"2", "2", "1", "2">>, <<"2", "2", "1">>, <<"2", "2">>, <<"2">>, <<>>, <<"A", "B", "1", "2", "1", "5">>, <<"2", "2", "1", "2", "A", "B">> }

DateVectors ==
  { <<WithSep(Segment(<<"1", "7">>, p), <<>>)>> : p \in DateGrid }
    \cup { <<WithSep(Segment(ai, p), sep)>> :
             ai \in DateAIs, p \in TestedDates \cup MalformedDates, sep \in CoreSeps }
    \cup { <<WithSep(GTIN, <<>>), WithSep(Segment(ai, p), sep)>> :
             ai \in DateAIs, p \in TestedDates \cup MalformedDates, sep \in CoreSeps }

InitDate ==
  /\ vector \in DateVectors
  /\ prefix = <<>>
  /\ parser = GS1Parser(DefaultOptions)
  /\ InitLocals

SpecDate == InitDate /\ [][Next]_vars

\* ------------------------------------------------------------------------
\* Properties of the field parsers
\* ------------------------------------------------------------------------
\* the cap of the lot and serial numbers: lotLen ?? 20, a cap only if positive
LotCap ==
  IF parser.lotLen = <<>> THEN <<20>>
  ELSE IF parser.lotLen[1] > 0 THEN parser.lotLen
  ELSE <<>>

\* plain variable-length AIs of the inputs and the cap of each
CappedVariableAIs ==
  { [ai |-> <<"1", "0">>, cap |-> LotCap],
    [ai |-> <<"2", "1">>, cap |-> LotCap],
    [ai |-> <<"3", "0">>, cap |-> <<8>>],
    [ai |-> <<"8", "0", "1", "8">>, cap |-> <<18>>] }

FieldText(start) ==
  LET rest == SubSeq(given, start + 1, Len(given))
      pos  == indexOf(rest, GROUP_SEPARATOR)
  IN  IF pos = -1 THEN rest ELSE SubSeq(rest, 1, pos)

\* given starts with stem and a digit
AtDecimalAI(stem) ==
  /\ IsPrefix(stem, given)
  /\ Len(given) > Len(stem)
  /\ given[Len(stem) + 1] \in Digits

\* C12: a variable-length field of any kind (plain, measure 390x/392x,
\* ISO number 391x/393x, ISO chars 421/703x) with a payload of zero
\* characters raises EmptyVariableLengthData, and no element is returned.
C12_EmptyVariableLength ==
  /\ \A ai \in { <<"1", "0">>, <<"2", "1">> } \cup ISOCharStems :
       (dispatched > 0 /\ IsPrefix(ai, given) /\ FieldText(Len(ai)) = <<>>) =>
         /\ pc = "failed"
         /\ raised = <<BarcodeError("EmptyVariableLengthData", "38")>>
  /\ \A stem \in VariableMeasureStems \cup ISONumberStems :
       (dispatched > 0 /\ AtDecimalAI(stem) /\ FieldText(Len(stem) + 1) = <<>>) =>
         /\ pc = "failed"
         /\ raised = <<BarcodeError("EmptyVariableLengthData", "38")>>

\* given starts with a date AI
AtDate == dispatched > 0 /\ \E ai \in DateAIs : IsPrefix(ai, given)

\* the (up to) six characters after the AI of given
DateField == SubSeq(given, 3, Min(8, Len(given)))

SixDigits(p) == Len(p) = 6 /\ AllDigits(p)

YearOf(p) == ToInt(SubSeq(p, 1, 2))

MonthOf(p) == ToInt(SubSeq(p, 3, 4))

DayOf(p) == ToInt(SubSeq(p, 5, 6))

\* the year a two-digit year stands for
Century(yy) == IF yy <= 50 THEN 2000 + yy ELSE 1900 + yy

\* the number of days of month m (1..12) of year y
LastDay(y, m) ==
  CASE m \in {4, 6, 9, 11} -> 30
    [] m = 2 -> (IF y % 400 = 0 \/ (y % 4 = 0 /\ y % 100 # 0) THEN 29 ELSE 28)
    [] OTHER -> 31

\* C13: century rule.  A decoded date of a payload of six digits has year
\* 2000 + yy for yy in 00..50 and 1900 + yy for yy in 51..99.
C13_CenturyRule ==
  (AtDate /\ Returned /\ SixDigits(DateField)) =>
    /\ currentElement.element.data.valid
    /\ currentElement.element.data.year = Century(YearOf(DateField))
    /\ currentElement.element.data.year \in 1951..2050

C13_Witness ==
  /\ AtDate
  /\ Returned
  /\ SubSeq(DateField, 1, 2) = <<"5", "0">>
  /\ currentElement.element.data.year = 2050

\* C14: day-zero rule.  For every year and every month 01..12 the payload
\* with day 00 decodes, to the last day of that month of that year.
C14_DayZero ==
  (AtDate /\ SixDigits(DateField) /\ MonthOf(DateField) \in 1..12 /\ DayOf(DateField) = 0) =>
    /\ Returned
    /\ currentElement.element.dataString = DateField
    /\ currentElement.element.data =
         [type |-> "D", valid |-> TRUE,
          year  |-> Century(YearOf(DateField)),
          month |-> MonthOf(DateField) - 1,
          date  |-> LastDay(Century(YearOf(DateField)), MonthOf(DateField))]

C14_Witness ==
  /\ AtDate
  /\ Returned
  /\ DateField = <<"9", "9", "1", "2", "0", "0">>
  /\ currentElement.element.data.year = 1999
  /\ currentElement.element.data.month = 11
  /\ currentElement.element.data.date = 31

\* C15: a payload of six digits decodes exactly when its month is 01..12
\* and its day is 00 or a day of that month of the resolved year; every
\* other payload of six digits raises InvalidDate.
C15_ValidDates ==
  (AtDate /\ SixDigits(DateField)) =>
    IF /\ MonthOf(DateField) \in 1..12
       /\ DayOf(DateField) <= LastDay(Century(YearOf(DateField)), MonthOf(DateField))
      THEN Returned /\ currentElement.element.ai = SubSeq(given, 1, 2)
      ELSE pc = "failed" /\ raised = <<BarcodeError("InvalidDate", "36")>>

C15_Witness ==
  /\ AtDate
  /\ DateField = <<"2", "3", "0", "2", "2", "9">>
  /\ pc = "failed"
  /\ raised = <<BarcodeError("InvalidDate", "36")>>

\* C16: a date is decoded only from six decimal digits: a payload with a
\* character that is no digit, or cut short by the end of the input, raises
\* an error.
C16_SixDigitsOnly ==
  (AtDate /\ ~SixDigits(DateField)) => pc = "failed"

\* n zeros
Zeros(n) == [i \in 1..n |-> "0"]

\* the number written by the digits p, divided by 10^n
Shifted(p, n) ==
  LET padded == Zeros(n) \o p
  IN  Num(FALSE, SubSeq(padded, 1, Len(padded) - n),
          SubSeq(padded, Len(padded) - n + 1, Len(padded)))

\* C17: decimal placement.  The value of a decimal-measure element with the
\* digits p as payload and the decimal count n is p / 10^n, also when n is
\* larger than the number of digits of p.
C17_DecimalPlacement ==
  \A stem \in FixedMeasureStems \cup VariableMeasureStems \cup ISONumberStems :
    (Returned /\ AtDecimalAI(stem) /\ AllDigits(currentElement.element.dataString)
       /\ currentElement.element.dataString # <<>>) =>
      currentElement.element.data =
        Shifted(currentElement.element.dataString, DigitValue(given[4]))

\* C18: a fixed-length measure needs six characters after its four-digit
\* AI; with fewer the decode raises FixedLengthDataTooShort and returns no
\* element.
C18_MeasureTooShort ==
  \A stem \in FixedMeasureStems :
    (dispatched > 0 /\ AtDecimalAI(stem) /\ Len(given) < 10) =>
      /\ pc = "failed"
      /\ raised = <<BarcodeError("FixedLengthDataTooShort", "37")>>

\* C19: after the three-digit stem of a decimal measure, fixed or variable,
\* there must be a digit; when it is missing or no digit the decode raises
\* InvalidAI and produces no element.
C19_FourthDigit ==
  \A stem \in FixedMeasureStems \cup VariableMeasureStems \cup ISONumberStems :
    (dispatched > 0 /\ IsPrefix(stem, given) /\ ~AtDecimalAI(stem)) =>
      /\ pc = "failed"
      /\ Len(raised) = 1
      /\ raised[1].name = "InvalidAiError"
      /\ Len(parsedCodeItems) = dispatched - 1

\* "(" + ai + ")" + dataString over the elements, in order
RECURSIVE Rendered(_)
Rendered(items) ==
  IF items = <<>> THEN <<>>
  ELSE <<"(">> \o Head(items).ai \o <<")">> \o Head(items).dataString \o Rendered(Tail(items))

Occurrences(s, c) == Cardinality({ i \in 1..Len(s) : s[i] = c })

\* C20: denormalized is the concatenation, in parse order, of
\* "(" + ai + ")" + dataString over the parsed elements, with nothing
\* between the groups and one group per element; a successful decode
\* returns it.
C20_Denormalized ==
  /\ denormalized = Rendered(parsedCodeItems)
  /\ Occurrences(denormalized, "(") = Len(parsedCodeItems)
  /\ Occurrences(denormalized, ")") = Len(parsedCodeItems)
  /\ pc = "done" => result.denormalized = Rendered(parsedCodeItems)

C20_Witness ==
  /\ pc = "done"
  /\ Len(parsedCodeItems) = 2
  /\ result.denormalized = <<"(", "0", "1", ")", "0", "4", "0", "1", "2", "3", "4", "5", "6", "7", "8", "9", "0", "1", "(", "1", "7", ")", "1", "5", "0", "1", "2", "9">>

\* ------------------------------------------------------------------------
\* Properties of the decode loop and of the result
\* ------------------------------------------------------------------------

\* s without its leading characters c
RECURSIVE StripLeading(_, _)
StripLeading(s, c) ==
  IF s # <<>> /\ Head(s) = c THEN StripLeading(Tail(s), c) ELSE s

\* what parseBarcode scans: the normalized input after the symbology identifier
PostSymbology == symbologyIdentifier(normalize(barcode, parser.fncChar)).restOfBarcode

\* s is ai + dataString of each element in order, with terminators between
RECURSIVE Reconstructs(_, _, _)
Reconstructs(items, s, c) ==
  IF items = <<>> THEN s = <<>>
  ELSE LET e == Head(items).ai \o Head(items).dataString
       IN  /\ IsPrefix(e, s)
           /\ Reconstructs(Tail(items), StripLeading(SubSeq(s, Len(e) + 1, Len(s)), c), c)

RECURSIVE SumOfLengths(_)
SumOfLengths(items) ==
  IF items = <<>> THEN 0
  ELSE Len(Head(items).ai) + Len(Head(items).dataString) + SumOfLengths(Tail(items))

\* C21: on a successful decode ai + dataString of the parsed elements, in
\* order and with the stripped terminators put back between them, is the
\* input after the symbology identifier, character for character; the
\* lengths never add up to more than that input.
C21_Reconstruction ==
  pc = "done" =>
    /\ Reconstructs(parsedCodeItems, PostSymbology, parser.fncChar)
    /\ SumOfLengths(parsedCodeItems) <= Len(PostSymbology)

\* C22: the ai of every parsed element is a string of two to four decimal
\* digits and a prefix of the remainder it was parsed from; no ai holds a
\* character that is no digit, nor the terminator.
C22_ValidAI ==
  /\ \A i \in 1..Len(parsedCodeItems) :
       /\ Len(parsedCodeItems[i].ai) \in 2..4
       /\ AllDigits(parsedCodeItems[i].ai)
  /\ Returned => IsPrefix(currentElement.element.ai, given)

\* s followed by digits dispatches to a parser: identifyAI does not reject it
Dispatches(s) ==
  LET r == identifyAI(s \o DigitPayload, <<>>, <<>>)
  IN  r.ok \/ r.error.name # "InvalidAiError"

\* the digit sequences of length four that identifyAI dispatches
KnownAIs == { d \in [1..4 -> Digits] : Dispatches(d) }

\* the beginnings of the digit sequences that identifyAI dispatches
KnownPrefixes == { SubSeq(d, 1, k) : d \in KnownAIs, k \in 0..4 }

\* q is the beginning of a digit sequence that identifyAI dispatches
Matched(q) == q \in KnownPrefixes

\* C23: when identifyAI rejects a digit sequence, the InvalidAI error names
\* exactly the digits already matched as the prefix and exactly the first
\* unmatched character as the offending one (nothing when the input ends
\* there), at every depth of the dispatch.
C23_InvalidAINames ==
  (pc = "failed" /\ dispatched > 0 /\ raised[Len(raised)].name = "InvalidAiError") =>
    LET e == raised[Len(raised)]
    IN  /\ IsPrefix(e.prev \o e.current, given)
        /\ Len(e.current) = (IF Len(given) > Len(e.prev) THEN 1 ELSE 0)
        /\ Matched(e.prev)
        /\ e.current # <<>> => ~Matched(e.prev \o e.current)

\* ------------------------------------------------------------------------
\* Sequences of elements: runs of terminators, repeated AIs, bare identifiers
\* ------------------------------------------------------------------------

\* elements with and without a field name in AIMap, two payloads for 10 and 17
LoopSegments ==
  { GTIN,
    Segment(<<"1", "0">>, <<"A", "B", "C", "1", "2", "3">>),
    Segment(<<"1", "0">>, <<"X", "Y">>),
    Segment(<<"1", "7">>, <<"1", "5", "0", "1", "2", "9">>),
    Segment(<<"1", "7">>, <<"2", "5", "1", "2", "3", "1">>),
    Segment(<<"2", "0">>, <<"1", "2">>),
    Segment(<<"2", "1">>, <<"S", "1">>),
    Segment(<<"3", "1", "0", "3">>, <<"0", "0", "0", "5", "2", "5">>) }

\* what stands between two elements: nothing, or a run of terminators
LoopSeps ==
  { <<>>, <<GROUP_SEPARATOR>>, <<GROUP_SEPARATOR, GROUP_SEPARATOR>>,
    <<GROUP_SEPARATOR, GROUP_SEPARATOR, GROUP_SEPARATOR>>, <<"|">>, <<"|", "|">> }

LoopVectors ==
  { <<WithSep(a, s), WithSep(b, t)>> :
      a \in LoopSegments, s \in LoopSeps, b \in LoopSegments, t \in CoreSeps }

InitLoop ==
  /\ \/ vector = <<>>
     \/ vector \in LoopVectors
  /\ prefix \in Prefixes
  /\ parser \in { GS1Parser(DefaultOptions),
                  GS1Parser([fncChar |-> <<"|">>, lotMaxLength |-> <<>>]) }
  /\ InitLocals

SpecLoop == InitLoop /\ [][Next]_vars

\* the terminators the input holds between its two elements
Between == IF Len(vector) = 2 THEN vector[1].sep ELSE <<>>

\* C24: after every successfully parsed element all leading terminators of
\* the new remainder are removed before the next dispatch, however many
\* there are; under the default configuration identifyAI is never called,
\* after the first element, on a remainder that starts with the terminator.
C24_TerminatorsStripped ==
  /\ (Returned /\ pc = "scanning") =>
       /\ restOfBarcode = StripLeading(currentElement.codestring, parser.fncChar)
       /\ restOfBarcode # <<>> => restOfBarcode[1] # parser.fncChar
  /\ dispatched >= 2 => given[1] # parser.fncChar

C24_Witness ==
  /\ dispatched = 2
  /\ parser.fncChar = GROUP_SEPARATOR
  /\ Between = <<GROUP_SEPARATOR, GROUP_SEPARATOR, GROUP_SEPARATOR>>
  /\ vector[1].ai = GTIN.ai
  /\ given = vector[2].ai \o vector[2].data \o vector[2].sep

\* under the default configuration, the input has two or more terminators in
\* a row between its two elements
DoubleTerminator ==
  /\ Len(vector) = 2
  /\ prefix \in SymbologyIdentifiers \cup {<<>>}
  /\ parser.fncChar = GROUP_SEPARATOR
  /\ slice(Between, 0, 2) = <<GROUP_SEPARATOR, GROUP_SEPARATOR>>

Holds(s, c) == \E i \in 1..Len(s) : s[i] = c

\* C26: on every successful decode under the default configuration no
\* element's dataString and no string value holds the terminator, the
\* payloads of fixed-length fields included.
C26_NoTerminatorInPayload ==
  (pc = "done" /\ parser.fncChar = GROUP_SEPARATOR) =>
    \A i \in 1..Len(parsedCodeItems) :
      /\ ~Holds(parsedCodeItems[i].dataString, GROUP_SEPARATOR)
      /\ parsedCodeItems[i].data.type = "S" =>
           ~Holds(parsedCodeItems[i].data.str, GROUP_SEPARATOR)

\* C27: the payload of a variable-length AI dispatched with a cap is at most
\* that cap long in every returned element, whether or not a terminator
\* follows the field.
C27_PayloadWithinCap ==
  \A v \in CappedVariableAIs :
    (Returned /\ currentElement.element.ai = v.ai /\ v.cap # <<>>) =>
      Len(currentElement.element.dataString) <= v.cap[1]

\* C28: every element of number type returned by a successful decode
\* carries a defined numeric value, never NaN: a decimal-measure field whose
\* digits are missing, empty or no number makes decode fail.
C28_NumbersDefined ==
  \A i \in 1..Len(parsedCodeItems) :
    parsedCodeItems[i].data.type = "N" => ~parsedCodeItems[i].data.nan

\* the barcode type named by each symbology identifier
CodeNameOf(id) ==
  CASE id = <<"]", "C", "1">> -> "GS1-128"
    [] id = <<"]", "e", "0">> -> "GS1 DataBar"
    [] id \in { <<"]", "e", "1">>, <<"]", "e", "2">> } -> "GS1 Composite"
    [] id = <<"]", "d", "2">> -> "GS1 DataMatrix"
    [] id = <<"]", "Q", "3">> -> "GS1 QR Code"

\* the symbology step of the current call is over
PastSymbology == pc \in {"scanning", "done", "failed"} /\ barcode # <<>>

\* C29: an input that is only a symbology identifier decodes without error
\* to the mapped codeName, an empty denormalized text and no element; an
\* input whose first three characters are no known identifier gets an empty
\* codeName and is dispatched from its first character.
C29_SymbologyOnly ==
  /\ (barcode \in SymbologyIdentifiers /\ PastSymbology) =>
       /\ pc # "failed"
       /\ raised = <<>>
       /\ dispatched = 0
       /\ codeName = CodeNameOf(barcode)
       /\ parsedCodeItems = <<>>
       /\ denormalized = <<>>
       /\ pc = "done" => result = DecodeResult(CodeNameOf(barcode), <<>>, <<>>)
  /\ (slice(normalize(barcode, parser.fncChar), 0, 3) \notin SymbologyIdentifiers
        /\ PastSymbology) =>
       /\ codeName = ""
       /\ dispatched = 1 => given = normalize(barcode, parser.fncChar)

C29_Witness ==
  /\ pc = "done"
  /\ barcode = <<"]", "C", "1">>
  /\ result = DecodeResult("GS1-128", <<>>, <<>>)

\* the field names of the elements of items
FieldNames(items) == { AIMap(items[i].ai) : i \in 1..Len(items) } \ {""}

\* the position of the last element of items with field name f
LastWith(items, f) ==
  CHOOSE i \in 1..Len(items) :
    /\ AIMap(items[i].ai) = f
    /\ \A j \in (i + 1)..Len(items) : AIMap(items[j].ai) # f

\* C30: each entry of data in the DecodeResult is the last parsed element
\* whose AI maps to that field name; elements whose AI has no field name are
\* left out, and denormalized holds every parsed element in order.
C30_LastElementPerField ==
  pc = "done" =>
    /\ result.returned
    /\ DOMAIN result.data = FieldNames(parsedCodeItems)
    /\ \A f \in FieldNames(parsedCodeItems) :
         result.data[f] = parsedCodeItems[LastWith(parsedCodeItems, f)]
    /\ result.denormalized = Rendered(parsedCodeItems)

C30_Witness ==
  /\ pc = "done"
  /\ Len(parsedCodeItems) = 2
  /\ parsedCodeItems[1].ai = <<"1", "0">>
  /\ parsedCodeItems[2].ai = <<"1", "0">>
  /\ parsedCodeItems[1].dataString = <<"A", "B", "C", "1", "2", "3">>
  /\ parsedCodeItems[2].dataString = <<"X", "Y">>
  /\ DOMAIN result.data = {"batch"}
  /\ result.data["batch"].dataString = <<"X", "Y">>

====
